---- MODULE Spec2Model ----
(***************************************************************************)
(* A model of md2gdocs / md2docx: the Mermaid renderer's retry loop, the   *)
(* block parser, the inline formatter, the table renderer, the             *)
(* position-tracking builder of the Google Docs backend, and convert with  *)
(* the renderer it calls.                                                  *)
(*                                                                         *)
(* Text is a sequence of one-character strings.  Each component has its    *)
(* own specification (SpecApi, SpecInline, SpecParse, SpecTable, SpecDoc,  *)
(* SpecConvert); the variables of the other components stay at their idle  *)
(* values there.                                                           *)
(***************************************************************************)
EXTENDS Integers, Sequences, FiniteSets, TLC

VARIABLES
    \* MermaidRenderer._render_with_api
    pc_api,          \* "idle" | "request" | "sleep" | "done"
    attempt,         \* the loop variable of: for attempt in range(max_retries)
    retry_delay,     \* seconds
    api_result,      \* "none" | "True" | "False": the value returned
    responses,       \* the outcome of every HTTP attempt so far, in order
    sleeps,          \* the argument of every time.sleep call so far, in order
    \* the Inline Formatter applied to one line
    pc_inline,       \* "idle" | "start" | "removed" | "applied" | "added"
    line_text,       \* the line (header text, list item text or paragraph)
    start_pos,       \* _apply_inline_formatting: start_pos
    clean_text,      \* what _remove_inline_markdown returned
    inline_requests, \* what _apply_inline_formatting appended
    runs,            \* the runs _add_formatted_text added to the paragraph
    \* parse_markdown
    pc_parse,        \* "idle" | "start" | "parsed" | "raised"
    parser,          \* "none" | "gdocs" | "docx": whose parse_markdown ran
    markdown_text,   \* the argument of parse_markdown
    blocks,          \* the blocks returned
    mermaid_diagrams,\* the diagram sources returned
    \* MarkdownToGoogleDocs.create_google_doc
    pc_doc,          \* "idle" | "blocks" | "batch1" | "batch2" | "returned" | "raised"
    mermaid_images,  \* per diagram: "" or the path of its image
    block_i,         \* the position of the loop over blocks
    insert_requests, \* the insertion queue
    format_requests, \* the styling queue
    current_index,   \* the insertion cursor
    doc_body,        \* the body of the backend document, from index 1 on
    submitted,       \* every request handed to the backend so far, in order
    doc_exc,         \* "none" | "upload" | "insert_batch" | "format_batch"
    block_log,       \* per block processed: the cursor and the queue lengths after it
    \* MarkdownToDocx._add_table_to_doc
    pc_table,        \* "idle" | "start" | "returned"
    table_text,      \* the argument: the text of one table block
    table_made,      \* whether doc.add_table was called
    table_cols,      \* add_table: cols
    table_nrows,     \* add_table: rows
    cell_writes,     \* every assignment to cell.text: row, column and text
    \* convert of both backends, with the renderer it calls
    pc_conv,         \* "idle" | "new" | "parse" | "tempdir" | "render" | "build"
                     \* | "done" | "raised"
    backend,         \* "none" | "gdocs" | "docx"
    use_api,         \* MermaidRenderer.use_api
    conv_blocks,     \* the types of the blocks parse_markdown returned
    diagram_i,       \* the position of the loop over mermaid_codes, from 1
    conv_images,     \* convert: mermaid_images, "" for a failed render
    built,           \* the positions of the blocks the builder has emitted
    conv_block_i,    \* the position of the builder's loop over blocks
    conv_exc,        \* "none" | "parse" | "tempdir" | "render" | "lookup" | "build":
                     \* what raised in convert
    render_outcomes, \* what happened in each render_to_image call, in order
    conv_text,       \* convert: markdown_content
    conv_index,      \* block['index'] of each block, -1 where the block has none
    conv_codes,      \* convert: mermaid_codes
    rendered,        \* the diagram source of each render_to_image call, in order
    temp_dir,        \* "none" | "exists" | "deleted": the TemporaryDirectory
    temp_files,      \* the image files that exist in the temporary directory
    requested,       \* the use_api argument of MermaidRenderer, once constructed
    tool_available,  \* whether mmdc --version succeeds
    paths_taken,     \* "api" | "cli" for each render_to_image call, in order
    picked,          \* the image path the builder looked up for each mermaid block
    \* main and convert_directory of both backends
    pc_dir,          \* "idle" | "start" | "loop" | "returned" | "exited"
    dir_backend,     \* "none" | "gdocs" | "docx"
    dir_mode,        \* "none" | "single" | "directory"
    md_files,        \* the number of markdown files of the directory
    file_i,          \* the position of the loop over md_files, from 1
    attempts,        \* the files convert was called for, in order
    file_outcomes,   \* how each of these calls ended
    converted,       \* len(doc_ids), len(docx_files)
    report,          \* "none" or the two numbers of the Completed line
    exit_status,     \* -1 or what main returned
    auth_failed_at,  \* -1 or the number of files attempted when authenticate raised
    \* MermaidRenderer._render_with_cli, called once per diagram
    pc_cli,          \* "idle" | "create" | "write" | "tool" | "unlink" | "handler" | "ended"
    cli_backend,     \* "none" | "gdocs" | "docx"
    cli_call,        \* the number of the call, from 1
    cli_calls,       \* how many diagrams the document has
    temp_exists,     \* the temporary file of this call exists
    temp_bound,      \* temp_mmd has been assigned in this call
    cli_failure,     \* "none" or the step of this call that raised
    cli_results,     \* how each finished call ended: "True" | "False" | "raise"
    leaked,          \* the temporary files that finished calls left behind
    \* _parse_markdown_with_formatting, one line of the loop at a time
    pc_fmt,          \* "idle" | "loop" | "returned"
    fmt_text,        \* markdown_text
    fmt_start,       \* start_index
    fmt_lines,       \* lines
    line_i,          \* the position of the loop over lines, from 1
    result_text,     \* result_text
    fmt_pos,         \* current_pos
    fmt_requests,    \* what the call has appended to format_requests
    line_log         \* line_start of each line and the length of result_text then

apiVars == <<pc_api, attempt, retry_delay, api_result, responses, sleeps>>

inlineVars == <<pc_inline, line_text, start_pos, clean_text, inline_requests, runs>>

parseVars == <<pc_parse, parser, markdown_text, blocks, mermaid_diagrams>>

docVars ==
    <<pc_doc, mermaid_images, block_i, insert_requests, format_requests,
      current_index, doc_body, submitted, doc_exc, block_log>>

tableVars ==
    <<pc_table, table_text, table_made, table_cols, table_nrows, cell_writes>>

convVars ==
    <<pc_conv, backend, use_api, conv_blocks, diagram_i, conv_images, built,
      conv_block_i, conv_exc, render_outcomes, conv_text, conv_index,
      conv_codes, rendered, temp_dir, temp_files, requested, tool_available,
      paths_taken, picked>>

dirVars ==
    <<pc_dir, dir_backend, dir_mode, md_files, file_i, attempts, file_outcomes,
      converted, report, exit_status, auth_failed_at>>

cliVars ==
    <<pc_cli, cli_backend, cli_call, cli_calls, temp_exists, temp_bound,
      cli_failure, cli_results, leaked>>

fmtVars ==
    <<pc_fmt, fmt_text, fmt_start, fmt_lines, line_i, result_text, fmt_pos,
      fmt_requests, line_log>>

vars ==
    <<apiVars, inlineVars, parseVars, docVars, tableVars, convVars, dirVars,
      cliVars, fmtVars>>

\* The variables of the other components, per component.
apiOthers ==
    <<inlineVars, parseVars, docVars, tableVars, convVars,
      dirVars, cliVars, fmtVars>>

inlineOthers ==
    <<apiVars, parseVars, docVars, tableVars, convVars,
      dirVars, cliVars, fmtVars>>

parseOthers ==
    <<apiVars, inlineVars, docVars, tableVars, convVars,
      dirVars, cliVars, fmtVars>>

docOthers ==
    <<apiVars, inlineVars, parseVars, tableVars, convVars,
      dirVars, cliVars, fmtVars>>

tableOthers ==
    <<apiVars, inlineVars, parseVars, docVars, convVars,
      dirVars, cliVars, fmtVars>>

convOthers ==
    <<apiVars, inlineVars, parseVars, docVars, tableVars,
      dirVars, cliVars, fmtVars>>

dirOthers ==
    <<apiVars, inlineVars, parseVars, docVars, tableVars,
      convVars, cliVars, fmtVars>>

cliOthers ==
    <<apiVars, inlineVars, parseVars, docVars, tableVars,
      convVars, dirVars, fmtVars>>

fmtOthers ==
    <<apiVars, inlineVars, parseVars, docVars, tableVars,
      convVars, dirVars, cliVars>>

(***************************************************************************)
(* The values a component's variables hold while it is not running.        *)
(***************************************************************************)
max_retries == 3

initial_retry_delay == 2

ApiIdle ==
    /\ pc_api = "idle"
    /\ attempt = 0
    /\ retry_delay = initial_retry_delay
    /\ api_result = "none"
    /\ responses = <<>>
    /\ sleeps = <<>>

InlineIdle ==
    /\ pc_inline = "idle"
    /\ line_text = <<>>
    /\ start_pos = 0
    /\ clean_text = <<>>
    /\ inline_requests = <<>>
    /\ runs = <<>>

ParseIdle ==
    /\ pc_parse = "idle"
    /\ parser = "none"
    /\ markdown_text = <<>>
    /\ blocks = <<>>
    /\ mermaid_diagrams = <<>>

\* A new document holds one empty paragraph: its newline, at index 1.
EmptyBody == <<"\n">>

DocIdle ==
    /\ pc_doc = "idle"
    /\ mermaid_images = <<>>
    /\ block_i = 1
    /\ insert_requests = <<>>
    /\ format_requests = <<>>
    /\ current_index = 1
    /\ doc_body = EmptyBody
    /\ submitted = <<>>
    /\ doc_exc = "none"
    /\ block_log = <<>>

TableIdle ==
    /\ pc_table = "idle"
    /\ table_text = <<>>
    /\ table_made = FALSE
    /\ table_cols = 0
    /\ table_nrows = 0
    /\ cell_writes = <<>>

ConvIdle ==
    /\ pc_conv = "idle"
    /\ backend = "none"
    /\ use_api = TRUE
    /\ conv_blocks = <<>>
    /\ diagram_i = 1
    /\ conv_images = <<>>
    /\ built = <<>>
    /\ conv_block_i = 1
    /\ conv_exc = "none"
    /\ render_outcomes = <<>>
    /\ conv_text = <<>>
    /\ conv_index = <<>>
    /\ conv_codes = <<>>
    /\ rendered = <<>>
    /\ temp_dir = "none"
    /\ temp_files = {}
    /\ requested = TRUE
    /\ tool_available = TRUE
    /\ paths_taken = <<>>
    /\ picked = <<>>

DirIdle ==
    /\ pc_dir = "idle"
    /\ dir_backend = "none"
    /\ dir_mode = "none"
    /\ md_files = 0
    /\ file_i = 1
    /\ attempts = <<>>
    /\ file_outcomes = <<>>
    /\ converted = 0
    /\ report = "none"
    /\ exit_status = -1
    /\ auth_failed_at = -1

CliIdle ==
    /\ pc_cli = "idle"
    /\ cli_backend = "none"
    /\ cli_call = 1
    /\ cli_calls = 0
    /\ temp_exists = FALSE
    /\ temp_bound = FALSE
    /\ cli_failure = "none"
    /\ cli_results = <<>>
    /\ leaked = {}

FmtIdle ==
    /\ pc_fmt = "idle"
    /\ fmt_text = <<>>
    /\ fmt_start = 1
    /\ fmt_lines = <<>>
    /\ line_i = 1
    /\ result_text = <<>>
    /\ fmt_pos = 1
    /\ fmt_requests = <<>>
    /\ line_log = <<>>

(***************************************************************************)
(* Text and the regular expressions of the source.  A text is a sequence   *)
(* of one-character strings; positions are 1-based here and 0-based in the *)
(* Python source, lengths and differences of positions are the same.       *)
(***************************************************************************)
NL == "\n"

Min(S) == CHOOSE x \in S : \A y \in S : x <= y

StartsAt(s, i, pat) ==
    /\ i >= 1
    /\ i + Len(pat) - 1 <= Len(s)
    /\ SubSeq(s, i, i + Len(pat) - 1) = pat

\* The first position >= i where pat occurs with no line break before it
\* (a dot does not match a line break), or 0.
FindFrom(s, pat, i) ==
    LET C == {j \in i..Len(s) :
                 /\ StartsAt(s, j, pat)
                 /\ \A k \in i..(j - 1) : s[k] # NL}
    IN IF C = {} THEN 0 ELSE Min(C)

RECURSIVE SubDelimFrom(_, _, _, _)
\* re.sub(open(.+?)close, r'\1', s), from position i on.
SubDelimFrom(s, open, close, i) ==
    IF i > Len(s) THEN <<>>
    ELSE LET g == i + Len(open)
             j == IF StartsAt(s, i, open) /\ g <= Len(s) /\ s[g] # NL
                  THEN FindFrom(s, close, g + 1) ELSE 0
         IN IF j # 0
            THEN SubSeq(s, g, j - 1) \o SubDelimFrom(s, open, close, j + Len(close))
            ELSE <<s[i]>> \o SubDelimFrom(s, open, close, i + 1)

SubDelim(s, open, close) == SubDelimFrom(s, open, close, 1)

\* The match of \[(.+?)\]\((.+?)\) at position i: <<j, k>> with "](" at j and
\* the closing ")" at k, or <<0, 0>>.
LinkMatchAt(s, i) ==
    IF ~(StartsAt(s, i, <<"[">>) /\ i + 1 <= Len(s) /\ s[i + 1] # NL)
    THEN <<0, 0>>
    ELSE LET j == FindFrom(s, <<"]", "(">>, i + 2)
         IN IF j = 0 \/ j + 2 > Len(s) \/ s[j + 2] = NL THEN <<0, 0>>
            ELSE LET k == FindFrom(s, <<")">>, j + 3)
                 IN IF k = 0 THEN <<0, 0>> ELSE <<j, k>>

RECURSIVE SubLinkFrom(_, _)
\* re.sub(r'\[(.+?)\]\((.+?)\)', r'\1', s), from position i on.
SubLinkFrom(s, i) ==
    IF i > Len(s) THEN <<>>
    ELSE LET m == LinkMatchAt(s, i)
         IN IF m[1] # 0
            THEN SubSeq(s, i + 1, m[1] - 1) \o SubLinkFrom(s, m[2] + 1)
            ELSE <<s[i]>> \o SubLinkFrom(s, i + 1)

(***************************************************************************)
(* MarkdownToGoogleDocs._remove_inline_markdown                            *)
(***************************************************************************)
Star == <<"*">>

Star2 == <<"*", "*">>

Under == <<"_">>

Under2 == <<"_", "_">>

RemoveBold(text) == SubDelim(SubDelim(text, Star2, Star2), Under2, Under2)

RemoveItalic(text) == SubDelim(SubDelim(text, Star, Star), Under, Under)

RemoveInlineMarkdown(text) == SubLinkFrom(RemoveItalic(RemoveBold(text)), 1)

(***************************************************************************)
(* MarkdownToGoogleDocs._apply_inline_formatting                           *)
(***************************************************************************)
\* The match of \*\*(.+?)\*\*|__(.+?)__ at position i: the position of the
\* closing marker, or 0.
BoldMatchAt(s, i) ==
    LET open == IF StartsAt(s, i, Star2) THEN Star2
                ELSE IF StartsAt(s, i, Under2) THEN Under2 ELSE <<>>
    IN IF open = <<>> \/ i + 2 > Len(s) \/ s[i + 2] = NL THEN 0
       ELSE FindFrom(s, open, i + 3)

RECURSIVE BoldMatchesFrom(_, _)
\* re.finditer over the bold pattern: <<start, closing marker>> of every
\* match, in order.
BoldMatchesFrom(s, i) ==
    IF i > Len(s) THEN <<>>
    ELSE LET j == BoldMatchAt(s, i)
         IN IF j # 0 THEN <<<<i, j>>>> \o BoldMatchesFrom(s, j + 2)
            ELSE BoldMatchesFrom(s, i + 1)

\* The match of (?<!\*)\*([^\*]+?)\*(?!\*)|(?<!_)_([^_]+?)_(?!_) at position
\* i: the position of the closing marker, or 0.
ItalicMatchAt(s, i) ==
    LET c == IF i <= Len(s) /\ s[i] \in {"*", "_"} THEN s[i] ELSE ""
        C == {j \in (i + 1)..Len(s) : s[j] = c}
    IN IF c = "" \/ (i > 1 /\ s[i - 1] = c) \/ C = {} THEN 0
       ELSE LET j == Min(C)
            IN IF j >= i + 2 /\ ~(j + 1 <= Len(s) /\ s[j + 1] = c) THEN j ELSE 0

RECURSIVE ItalicMatchesFrom(_, _)
ItalicMatchesFrom(s, i) ==
    IF i > Len(s) THEN <<>>
    ELSE LET j == ItalicMatchAt(s, i)
         IN IF j # 0 THEN <<<<i, j>>>> \o ItalicMatchesFrom(s, j + 1)
            ELSE ItalicMatchesFrom(s, i + 1)

\* prefix = self._remove_inline_markdown(text[:match.start()])
PrefixLen(text, start) == Len(RemoveInlineMarkdown(SubSeq(text, 1, start - 1)))

BoldRequest(text, sp, m) ==
    LET pos == sp + PrefixLen(text, m[1])
    IN [kind |-> "bold", startIndex |-> pos, endIndex |-> pos + (m[2] - m[1] - 2)]

ItalicRequest(text, sp, m) ==
    LET pos == sp + PrefixLen(text, m[1])
    IN [kind |-> "italic", startIndex |-> pos, endIndex |-> pos + (m[2] - m[1] - 1)]

\* The requests _apply_inline_formatting appends to format_requests.
ApplyInlineFormatting(text, sp) ==
    LET bm == BoldMatchesFrom(text, 1)
        im == ItalicMatchesFrom(text, 1)
    IN [n \in 1..Len(bm) |-> BoldRequest(text, sp, bm[n])]
       \o [n \in 1..Len(im) |-> ItalicRequest(text, sp, im[n])]

(***************************************************************************)
(* MarkdownToDocx._add_formatted_text                                      *)
(***************************************************************************)
\* The end of open.*?close at position i (the inner text may be empty), or 0.
PartEnd(s, i, open, close) ==
    IF ~StartsAt(s, i, open) THEN 0
    ELSE LET j == FindFrom(s, close, i + Len(open))
         IN IF j = 0 THEN 0 ELSE j + Len(close) - 1

LinkPartEnd(s, i) ==
    IF ~StartsAt(s, i, <<"[">>) THEN 0
    ELSE LET j == FindFrom(s, <<"]", "(">>, i + 1)
         IN IF j = 0 THEN 0 ELSE FindFrom(s, <<")">>, j + 2)

RECURSIVE PlainPartEndNoParen(_, _)
PlainPartEndNoParen(s, i) ==
    IF i > Len(s) \/ s[i] \in {"*", "_", "[", "("} THEN i - 1
    ELSE PlainPartEndNoParen(s, i + 1)

RECURSIVE PlainPartEnd(_, _)
\* [^*_\[]+ from position i: the last position of the run, or i - 1.
PlainPartEnd(s, i) ==
    IF i > Len(s) \/ s[i] \in {"*", "_", "["} THEN i - 1
    ELSE PlainPartEnd(s, i + 1)

\* The end of the match at position i of
\* (\*\*.*?\*\*|\*.*?\*|__.*?__|_.*?_|\[.*?\]\(.*?\)|[^*_\[]+), or 0.
PartEndAt(s, i) ==
    LET a1 == PartEnd(s, i, Star2, Star2)
        a2 == PartEnd(s, i, Star, Star)
        a3 == PartEnd(s, i, Under2, Under2)
        a4 == PartEnd(s, i, Under, Under)
        a5 == LinkPartEnd(s, i)
        a6 == PlainPartEnd(s, i)
    IN IF a1 # 0 THEN a1
       ELSE IF a2 # 0 THEN a2
       ELSE IF a3 # 0 THEN a3
       ELSE IF a4 # 0 THEN a4
       ELSE IF a5 # 0 THEN a5
       ELSE IF a6 >= i THEN a6
       ELSE 0

RECURSIVE FindAllParts(_, _)
\* re.findall(pattern, text)
FindAllParts(s, i) ==
    IF i > Len(s) THEN <<>>
    ELSE LET e == PartEndAt(s, i)
         IN IF e # 0 THEN <<SubSeq(s, i, e)>> \o FindAllParts(s, e + 1)
            ELSE FindAllParts(s, i + 1)

EndsWith(s, pat) == StartsAt(s, Len(s) - Len(pat) + 1, pat)

\* The runs one part adds to the paragraph: at most one.
RunsOfPart(part) ==
    IF \/ StartsAt(part, 1, Star2) /\ EndsWith(part, Star2)
       \/ StartsAt(part, 1, Under2) /\ EndsWith(part, Under2)
    THEN <<[style |-> "bold", text |-> SubSeq(part, 3, Len(part) - 2)]>>
    ELSE IF \/ StartsAt(part, 1, Star) /\ EndsWith(part, Star)
               /\ ~StartsAt(part, 1, Star2)
            \/ StartsAt(part, 1, Under) /\ EndsWith(part, Under)
               /\ ~StartsAt(part, 1, Under2)
    THEN <<[style |-> "italic", text |-> SubSeq(part, 2, Len(part) - 1)]>>
    ELSE IF StartsAt(part, 1, <<"[">>) /\ FindFrom(part, <<"]", "(">>, 1) # 0
    THEN LET m == LinkMatchAt(part, 1)
         IN IF m[1] # 0
            THEN <<[style |-> "link", text |-> SubSeq(part, 2, m[1] - 1)]>>
            ELSE <<>>
    ELSE <<[style |-> "plain", text |-> part]>>

RECURSIVE RunsOfParts(_)
RunsOfParts(parts) ==
    IF parts = <<>> THEN <<>>
    ELSE RunsOfPart(Head(parts)) \o RunsOfParts(Tail(parts))

\* The runs _add_formatted_text adds to the paragraph, in order.
AddFormattedText(text) == RunsOfParts(FindAllParts(text, 1))

RECURSIVE ConcatRuns(_)
ConcatRuns(rs) ==
    IF rs = <<>> THEN <<>>
    ELSE Head(rs).text \o ConcatRuns(Tail(rs))

(***************************************************************************)
(* parse_markdown of both backends                                         *)
(***************************************************************************)
Max(S) == CHOOSE x \in S : \A y \in S : x >= y

LowerLetters ==
    <<"a", "b", "c", "d", "e", "f", "g", "h", "i", "j", "k", "l", "m",
      "n", "o", "p", "q", "r", "s", "t", "u", "v", "w", "x", "y", "z">>

UpperLetters ==
    <<"A", "B", "C", "D", "E", "F", "G", "H", "I", "J", "K", "L", "M",
      "N", "O", "P", "Q", "R", "S", "T", "U", "V", "W", "X", "Y", "Z">>

Digits == <<"0", "1", "2", "3", "4", "5", "6", "7", "8", "9">>

Range(f) == {f[x] : x \in DOMAIN f}

\* \w
IsWordChar(c) ==
    c \in Range(LowerLetters) \cup Range(UpperLetters) \cup Range(Digits) \cup {"_"}

\* str.lower, one character
LowerChar(c) ==
    IF c \in Range(UpperLetters)
    THEN LowerLetters[CHOOSE n \in 1..26 : UpperLetters[n] = c]
    ELSE c

Lower(t) == [n \in 1..Len(t) |-> LowerChar(t[n])]

\* the characters str.strip removes and \s matches
Whitespace == {" ", "\t", NL}

\* part.strip() is not empty
StripNonEmpty(t) == \E n \in 1..Len(t) : t[n] \notin Whitespace

RECURSIVE WordRunEnd(_, _)
\* \w+ from position i: the last position of the run, or i - 1
WordRunEnd(s, i) ==
    IF i > Len(s) \/ ~IsWordChar(s[i]) THEN i - 1 ELSE WordRunEnd(s, i + 1)

\* The backtick character (a string of the module cannot hold one).
Backtick == "BACKTICK"

Fence == <<Backtick, Backtick, Backtick>>

\* The first position >= i where pat occurs (re.DOTALL), or 0.
FindAnyFrom(s, pat, i) ==
    LET C == {j \in i..Len(s) : StartsAt(s, j, pat)}
    IN IF C = {} THEN 0 ELSE Min(C)

\* The match of the fence pattern, FENCE(\w+)?\n(.*?)FENCE with FENCE three
\* backticks, at position i.
FenceMatchAt(s, i) ==
    LET w == WordRunEnd(s, i + 3)
        c == w + 2
        close == IF StartsAt(s, i, Fence) /\ w + 1 <= Len(s) /\ s[w + 1] = NL
                 THEN FindAnyFrom(s, Fence, c) ELSE 0
    IN IF close = 0 THEN [ok |-> FALSE]
       ELSE [ok |-> TRUE, lang |-> SubSeq(s, i + 3, w),
             content |-> SubSeq(s, c, close - 1), end |-> close + 2]

RECURSIVE SplitFences(_, _, _)
\* re.split(fence pattern, s, flags=re.DOTALL) from position i on,
\* the text since position pre not yet given out.  A tag that did not match
\* (None) is the empty text.
SplitFences(s, i, pre) ==
    IF i > Len(s) THEN <<SubSeq(s, pre, Len(s))>>
    ELSE LET m == FenceMatchAt(s, i)
         IN IF m.ok
            THEN <<SubSeq(s, pre, i - 1), m.lang, m.content>>
                 \o SplitFences(s, m.end + 1, m.end + 1)
            ELSE SplitFences(s, i + 1, pre)

Mermaid == <<"m", "e", "r", "m", "a", "i", "d">>

\* lang and lang.lower() == 'mermaid'
IsMermaid(lang) == lang # <<>> /\ Lower(lang) = Mermaid

RECURSIVE LineEnd(_, _)
\* the last position of the line that holds position i (i - 1 if it is empty)
LineEnd(s, i) ==
    IF i > Len(s) \/ s[i] = NL THEN i - 1 ELSE LineEnd(s, i + 1)

\* \|.+\| greedy, at a row that starts at position start: the last pipe of
\* the line, or 0
RowEnd(s, start) ==
    LET P == {q \in (start + 2)..LineEnd(s, start) : s[q] = "|"}
    IN IF start > Len(s) \/ s[start] # "|" \/ P = {} THEN 0 ELSE Max(P)

RECURSIVE TableEndFrom(_, _)
\* (?:\n\|.+\|)+ greedy after a row that ends at position e
TableEndFrom(s, e) ==
    IF e + 2 <= Len(s) /\ s[e + 1] = NL /\ RowEnd(s, e + 2) # 0
    THEN TableEndFrom(s, RowEnd(s, e + 2))
    ELSE e

\* The end of the match of (\|.+\|(?:\n\|.+\|)+) at position i, or 0.
TableMatchAt(s, i) ==
    LET e == LineEnd(s, i)
    IN IF i <= Len(s) /\ s[i] = "|" /\ e >= i + 2 /\ s[e] = "|"
          /\ TableEndFrom(s, e) > e
       THEN TableEndFrom(s, e) ELSE 0

RECURSIVE TableMatches(_, _)
\* table_matches: the matched texts, in order
TableMatches(s, i) ==
    IF i > Len(s) THEN <<>>
    ELSE LET e == TableMatchAt(s, i)
         IN IF e # 0 THEN <<SubSeq(s, i, e)>> \o TableMatches(s, e + 1)
            ELSE TableMatches(s, i + 1)

RECURSIVE IntToText(_)
IntToText(n) ==
    IF n < 10 THEN <<Digits[n + 1]>>
    ELSE IntToText(n \div 10) \o <<Digits[(n % 10) + 1]>>

RECURSIVE TextToInt(_)
TextToInt(t) ==
    IF t = <<>> THEN 0
    ELSE 10 * TextToInt(SubSeq(t, 1, Len(t) - 1))
         + (CHOOSE n \in 0..9 : Digits[n + 1] = t[Len(t)])

PlaceholderOpen == <<"<", "<", "<", "T", "A", "B", "L", "E", "_">>

PlaceholderClose == <<">", ">", ">">>

\* f'<<<TABLE_{k}>>>'
Placeholder(k) == PlaceholderOpen \o IntToText(k) \o PlaceholderClose

RECURSIVE ReplaceTables(_, _, _)
\* re.sub(table_pattern, replace_table, s) from position i on, k tables
\* replaced so far
ReplaceTables(s, i, k) ==
    IF i > Len(s) THEN <<>>
    ELSE LET e == TableMatchAt(s, i)
         IN IF e # 0 THEN Placeholder(k) \o ReplaceTables(s, e + 1, k + 1)
            ELSE <<s[i]>> \o ReplaceTables(s, i + 1, k)

RECURSIVE DigitRunEnd(_, _)
DigitRunEnd(s, i) ==
    IF i > Len(s) \/ s[i] \notin Range(Digits) THEN i - 1
    ELSE DigitRunEnd(s, i + 1)

\* The match of <<<TABLE_(\d+)>>> at position i.
PlaceholderMatchAt(s, i) ==
    LET d == DigitRunEnd(s, i + 9)
    IN IF StartsAt(s, i, PlaceholderOpen) /\ d >= i + 9
          /\ StartsAt(s, d + 1, PlaceholderClose)
       THEN [ok |-> TRUE, idx |-> TextToInt(SubSeq(s, i + 9, d)), end |-> d + 3]
       ELSE [ok |-> FALSE]

RECURSIVE SubPartBlocks(_, _, _, _)
\* The blocks of one prose part of md2docx: the part split at the table
\* placeholders.  A placeholder whose number is no index of table_matches
\* raises IndexError: the block of type "IndexError" stands for it.
SubPartBlocks(s, i, pre, tm) ==
    LET prose(a, b) ==
            IF StripNonEmpty(SubSeq(s, a, b))
            THEN <<[type |-> "markdown", content |-> SubSeq(s, a, b)]>>
            ELSE <<>>
    IN IF i > Len(s) THEN prose(pre, Len(s))
       ELSE LET m == PlaceholderMatchAt(s, i)
            IN IF m.ok
               THEN prose(pre, i - 1)
                    \o (IF m.idx + 1 <= Len(tm)
                        THEN <<[type |-> "table", content |-> tm[m.idx + 1]]>>
                        ELSE <<[type |-> "IndexError"]>>)
                    \o SubPartBlocks(s, m.end + 1, m.end + 1, tm)
               ELSE SubPartBlocks(s, i + 1, pre, tm)

\* The blocks of one prose part.
ProseBlocks(part, tm, docx) ==
    IF ~StripNonEmpty(part) THEN <<>>
    ELSE IF docx THEN SubPartBlocks(part, 1, 1, tm)
    ELSE <<[type |-> "markdown", content |-> part]>>

RECURSIVE BlocksOfParts(_, _, _, _, _)
\* The loop over parts, from the n-th prose part on, nd diagrams so far.
BlocksOfParts(parts, n, nd, tm, docx) ==
    IF n + 2 > Len(parts) THEN ProseBlocks(parts[n], tm, docx)
    ELSE ProseBlocks(parts[n], tm, docx)
         \o (IF IsMermaid(parts[n + 1])
             THEN <<[type |-> "mermaid", index |-> nd]>>
             ELSE <<[type |-> "code", language |-> parts[n + 1],
                     content |-> parts[n + 2]]>>)
         \o BlocksOfParts(parts, n + 3,
                          IF IsMermaid(parts[n + 1]) THEN nd + 1 ELSE nd, tm, docx)

RECURSIVE DiagramsOfParts(_, _)
\* mermaid_diagrams
DiagramsOfParts(parts, n) ==
    IF n + 2 > Len(parts) THEN <<>>
    ELSE (IF IsMermaid(parts[n + 1]) THEN <<parts[n + 2]>> ELSE <<>>)
         \o DiagramsOfParts(parts, n + 3)

\* MarkdownToGoogleDocs.parse_markdown
ParseMarkdownGdocs(md) ==
    LET parts == SplitFences(md, 1, 1)
    IN [blocks |-> BlocksOfParts(parts, 1, 0, <<>>, FALSE),
        diagrams |-> DiagramsOfParts(parts, 1)]

\* MarkdownToDocx.parse_markdown
ParseMarkdownDocx(md) ==
    LET parts == SplitFences(ReplaceTables(md, 1, 0), 1, 1)
    IN [blocks |-> BlocksOfParts(parts, 1, 0, TableMatches(md, 1), TRUE),
        diagrams |-> DiagramsOfParts(parts, 1)]

(***************************************************************************)
(* MarkdownToGoogleDocs._parse_markdown_with_formatting                    *)
(***************************************************************************)
RECURSIVE SplitLinesFrom(_, _, _)
\* markdown_text.split('\n')
SplitLinesFrom(s, i, pre) ==
    IF i > Len(s) THEN <<SubSeq(s, pre, Len(s))>>
    ELSE IF s[i] = NL THEN <<SubSeq(s, pre, i - 1)>> \o SplitLinesFrom(s, i + 1, i + 1)
    ELSE SplitLinesFrom(s, i + 1, pre)

SplitLines(s) == SplitLinesFrom(s, 1, 1)

RECURSIVE RunEnd(_, _, _)
\* The last position of the run of characters of C that starts at i, or i - 1.
RunEnd(s, i, C) ==
    IF i > Len(s) \/ s[i] \notin C THEN i - 1 ELSE RunEnd(s, i + 1, C)

\* \s+(.+)$ at position i of a line: the text of the group, or <<>> when
\* there is no match.  A line that ends in the white space gives one
\* character of it back to the group.
TailText(line, i) ==
    LET w == RunEnd(line, i, Whitespace)
    IN IF w < i THEN <<>>
       ELSE IF w < Len(line) THEN SubSeq(line, w + 1, Len(line))
       ELSE IF w >= i + 1 THEN <<line[w]>>
       ELSE <<>>

\* ^(#{1,6})\s+(.+)$
HeaderMatch(line) ==
    LET h == RunEnd(line, 1, {"#"})
    IN IF h >= 1 /\ h <= 6 /\ TailText(line, h + 1) # <<>>
       THEN [ok |-> TRUE, level |-> h, text |-> TailText(line, h + 1)]
       ELSE [ok |-> FALSE]

\* ^(\s*)[\*\-]\s+(.+)$
ListMatch(line) ==
    LET ind == RunEnd(line, 1, Whitespace)
    IN IF ind + 1 <= Len(line) /\ line[ind + 1] \in {"*", "-"}
          /\ TailText(line, ind + 2) # <<>>
       THEN [ok |-> TRUE, indent |-> ind, text |-> TailText(line, ind + 2)]
       ELSE [ok |-> FALSE]

\* ^(\s*)(\d+)\.\s+(.+)$
NumListMatch(line) ==
    LET ind == RunEnd(line, 1, Whitespace)
        d == RunEnd(line, ind + 1, Range(Digits))
    IN IF d >= ind + 1 /\ d + 1 <= Len(line) /\ line[d + 1] = "."
          /\ TailText(line, d + 2) # <<>>
       THEN [ok |-> TRUE, indent |-> ind, num |-> SubSeq(line, ind + 1, d),
             text |-> TailText(line, d + 2)]
       ELSE [ok |-> FALSE]

\* The bullet character U+2022.
Bullet == "BULLET"

\* '  ' * (len(indent) // 2)
IndentSpaces(ind) == [n \in 1..(2 * (ind \div 2)) |-> " "]

AdvanceCleanNoBreak(clean) == Len(clean)

\* current_pos += len(clean_text) + 1
AdvanceClean(clean) == Len(clean) + 1

\* current_pos += len(formatted_line)
AdvanceFormatted(formatted_line) == Len(formatted_line)

\* One iteration of the loop over lines: the text added to result_text, the
\* requests appended to format_requests and what is added to current_pos,
\* for a line at line_start.
FormatLine(line, line_start) ==
    LET hm == HeaderMatch(line)
        lm == ListMatch(line)
        nm == NumListMatch(line)
    IN IF hm.ok
       THEN LET clean == RemoveInlineMarkdown(hm.text)
            IN [text |-> clean \o <<NL>>,
                requests |->
                    <<[kind |-> "header", startIndex |-> line_start,
                       endIndex |-> line_start + Len(clean)]>>
                    \o ApplyInlineFormatting(hm.text, line_start),
                advance |-> AdvanceClean(clean)]
       ELSE IF lm.ok
       THEN LET sp == IndentSpaces(lm.indent)
                formatted_line == sp \o <<Bullet, " ">>
                                  \o RemoveInlineMarkdown(lm.text) \o <<NL>>
            IN [text |-> formatted_line,
                requests |->
                    ApplyInlineFormatting(lm.text, line_start + Len(sp) + 2),
                advance |-> AdvanceFormatted(formatted_line)]
       ELSE IF nm.ok
       THEN LET sp == IndentSpaces(nm.indent)
                formatted_line == sp \o nm.num \o <<".", " ">>
                                  \o RemoveInlineMarkdown(nm.text) \o <<NL>>
            IN [text |-> formatted_line,
                requests |->
                    ApplyInlineFormatting(nm.text,
                                          line_start + Len(sp) + Len(nm.num) + 2),
                advance |-> AdvanceFormatted(formatted_line)]
       ELSE IF StripNonEmpty(line)
       THEN LET clean == RemoveInlineMarkdown(line)
            IN [text |-> clean \o <<NL>>,
                requests |-> ApplyInlineFormatting(line, line_start),
                advance |-> AdvanceClean(clean)]
       ELSE [text |-> <<NL>>, requests |-> <<>>, advance |-> 1]

RECURSIVE FormatLines(_, _, _)
\* The loop over lines from the n-th line on, current_pos as given.  The
\* line and the rest of the loop are each evaluated once: one and rest range
\* over one-element sets.
FormatLines(lines, n, current_pos) ==
    IF n > Len(lines) THEN [text |-> <<>>, requests |-> <<>>]
    ELSE CHOOSE result \in UNION {
             { [text |-> one.text \o rest.text,
                requests |-> one.requests \o rest.requests] :
               rest \in {FormatLines(lines, n + 1, current_pos + one.advance)} } :
             one \in {FormatLine(lines[n], current_pos)} } : TRUE

\* _parse_markdown_with_formatting: the text returned and the requests
\* appended to format_requests.
ParseMarkdownWithFormatting(md, start_index) ==
    CHOOSE result \in {FormatLines(lines, 1, start_index) :
                           lines \in {SplitLines(md)}} : TRUE

(***************************************************************************)
(* _parse_markdown_with_formatting one line of the loop at a time, from    *)
(* the point where the text has been split into lines.                     *)
(***************************************************************************)
MaxFmtLines == 3

\* Lines of each kind: headers, bullets, numbered items, plain lines, blank
\* lines.
FmtLineSet ==
    { <<"#", " ", "a">>,
      <<"#", "#", " ", "*", "*", "a", "*", "*">>,
      <<"*", " ", "a">>,
      <<" ", " ", "-", " ", "_", "a", "_">>,
      <<"1", ".", " ", "a">>,
      <<"1", "2", ".", " ", "*", "a", "*">>,
      <<"a">>,
      <<"*", "*", "a", "*", "*", " ", "b">>,
      <<"*", "*", "_", "_", "a", "_", "_", "*", "*">>,
      <<>>,
      <<" ">> }

\* start_index is the cursor of create_google_doc, which is at least 1.
FmtStarts == {1, 4}

RECURSIVE FmtTexts(_)
\* The texts of exactly n lines.
FmtTexts(n) ==
    IF n = 1 THEN FmtLineSet
    ELSE {t \o <<NL>> \o u : t \in FmtTexts(n - 1), u \in FmtLineSet}

InitFormat ==
    /\ pc_fmt = "loop"
    /\ fmt_text \in UNION {FmtTexts(n) : n \in 1..MaxFmtLines}
    /\ fmt_start \in FmtStarts
    /\ fmt_lines = SplitLines(fmt_text)
    /\ line_i = 1
    /\ result_text = <<>>
    /\ fmt_pos = fmt_start
    /\ fmt_requests = <<>>
    /\ line_log = <<>>
    /\ ApiIdle /\ InlineIdle /\ ParseIdle /\ DocIdle
    /\ TableIdle /\ ConvIdle /\ DirIdle /\ CliIdle

\* One iteration of the loop over lines.
FormatStep ==
    /\ pc_fmt = "loop"
    /\ line_i <= Len(fmt_lines)
    /\ LET one == FormatLine(fmt_lines[line_i], fmt_pos)
       IN /\ result_text' = result_text \o one.text
          /\ fmt_requests' = fmt_requests \o one.requests
          /\ fmt_pos' = fmt_pos + one.advance
    /\ line_log' = Append(line_log,
                          [line_start |-> fmt_pos, offset |-> Len(result_text)])
    /\ line_i' = line_i + 1
    /\ UNCHANGED <<pc_fmt, fmt_text, fmt_start, fmt_lines, fmtOthers>>

\* return result_text
FormatReturn ==
    /\ pc_fmt = "loop"
    /\ line_i > Len(fmt_lines)
    /\ pc_fmt' = "returned"
    /\ UNCHANGED <<fmt_text, fmt_start, fmt_lines, line_i, result_text, fmt_pos,
                   fmt_requests, line_log, fmtOthers>>

NextFormat ==
    \/ FormatStep
    \/ FormatReturn

SpecFormat == InitFormat /\ [][NextFormat]_vars

(***************************************************************************)
(* MarkdownToDocx._add_table_to_doc                                        *)
(***************************************************************************)
RECURSIVE Trim(_)
\* str.strip
Trim(t) ==
    IF t = <<>> THEN t
    ELSE IF t[1] \in Whitespace THEN Trim(Tail(t))
    ELSE IF t[Len(t)] \in Whitespace THEN Trim(SubSeq(t, 1, Len(t) - 1))
    ELSE t

RECURSIVE SplitOnFrom(_, _, _, _)
\* s.split(c)
SplitOnFrom(s, c, i, pre) ==
    IF i > Len(s) THEN <<SubSeq(s, pre, Len(s))>>
    ELSE IF s[i] = c THEN <<SubSeq(s, pre, i - 1)>> \o SplitOnFrom(s, c, i + 1, i + 1)
    ELSE SplitOnFrom(s, c, i + 1, pre)

SplitOn(s, c) == SplitOnFrom(s, c, 1, 1)

RECURSIVE StripAll(_)
\* [x.strip() for x in xs if x.strip()]
StripAll(xs) ==
    IF xs = <<>> THEN <<>>
    ELSE (IF Trim(xs[1]) # <<>> THEN <<Trim(xs[1])>> ELSE <<>>) \o StripAll(Tail(xs))

\* lines
TableLines(text) == StripAll(SplitOn(Trim(text), NL))

\* [cell.strip() for cell in line.split('|') if cell.strip()]
Cells(line) == StripAll(SplitOn(line, "|"))

DataLinesFromSeparator(lines) == SubSeq(lines, 2, Len(lines))

\* lines[2:]
DataLines(lines) == SubSeq(lines, 3, Len(lines))

RECURSIVE DataRows(_, _)
\* data_rows, from the n-th of the data lines on
DataRows(lines, n) ==
    IF n > Len(lines) THEN <<>>
    ELSE (IF Cells(lines[n]) # <<>> THEN <<Cells(lines[n])>> ELSE <<>>)
         \o DataRows(lines, n + 1)

\* The text of a header cell.
CleanHeaderCell(t) == SubDelim(SubDelim(t, Star2, Star2), <<Backtick>>, <<Backtick>>)

\* The text of a data cell.
CleanDataCell(t) == SubDelim(SubDelim(t, <<Backtick>>, <<Backtick>>), Star2, Star2)

\* The loop over header_cells: one write per cell, in row 0.
HeaderWrites(header_cells) ==
    [i \in 1..Len(header_cells) |->
        [row |-> 0, col |-> i - 1, text |-> CleanHeaderCell(header_cells[i])]]

\* if col_idx < len(header_cells)
ColumnInTable(col_idx, ncols) == col_idx < ncols

RECURSIVE RowWrites(_, _, _, _)
\* The inner loop over the cells of one data row, from the c-th cell on.
RowWrites(row_idx, row_data, c, ncols) ==
    IF c > Len(row_data) THEN <<>>
    ELSE (IF ColumnInTable(c - 1, ncols)
          THEN <<[row |-> row_idx + 1, col |-> c - 1,
                  text |-> CleanDataCell(row_data[c])]>>
          ELSE <<>>)
         \o RowWrites(row_idx, row_data, c + 1, ncols)

RECURSIVE DataWrites(_, _, _)
\* The loop over data_rows, from the r-th row on.
DataWrites(data_rows, r, ncols) ==
    IF r > Len(data_rows) THEN <<>>
    ELSE RowWrites(r - 1, data_rows[r], 1, ncols)
         \o DataWrites(data_rows, r + 1, ncols)

MaxTableLines == 3

\* Lines of the text handed to _add_table_to_doc: the table pattern of
\* parse_markdown makes every line of a table block begin and end with a
\* pipe; a blank line is for the texts of other callers.
TableLineSet ==
    { <<" ">>,
      <<"|", "a", "|", "b", "|">>,
      <<"|", "a", "|", "|", "b", "|">>,
      <<"|", "-", "|", "-", "|">>,
      <<"|", " ", "a", " ", "|">>,
      <<"|", "a", "|", "b", "|", "c", "|">>,
      <<"|", " ", "|">>,
      <<"|", Backtick, "a", Backtick, "|", "*", "*", "b", "*", "*", "|">> }

RECURSIVE TableTexts(_)
\* The texts of exactly n lines.
TableTexts(n) ==
    IF n = 1 THEN TableLineSet
    ELSE {t \o <<NL>> \o u : t \in TableTexts(n - 1), u \in TableLineSet}

InitTable ==
    /\ pc_table = "start"
    /\ table_text \in UNION {TableTexts(n) : n \in 1..MaxTableLines}
    /\ table_made = FALSE
    /\ table_cols = 0
    /\ table_nrows = 0
    /\ cell_writes = <<>>
    /\ ApiIdle /\ InlineIdle /\ ParseIdle /\ DocIdle
       /\ ConvIdle /\ DirIdle /\ CliIdle /\ FmtIdle

AddTableToDoc ==
    /\ pc_table = "start"
    /\ LET lines == TableLines(table_text)
           header_cells == Cells(lines[1])
           data_rows == DataRows(DataLines(lines), 1)
       IN IF Len(lines) < 2
          THEN UNCHANGED <<table_made, table_cols, table_nrows, cell_writes>>
          ELSE /\ table_made' = TRUE
               /\ table_cols' = Len(header_cells)
               /\ table_nrows' = 1 + Len(data_rows)
               /\ cell_writes' = HeaderWrites(header_cells)
                                 \o DataWrites(data_rows, 1, Len(header_cells))
    /\ pc_table' = "returned"
    /\ UNCHANGED <<table_text, tableOthers>>

NextTable == AddTableToDoc

SpecTable == InitTable /\ [][NextTable]_vars

(***************************************************************************)
(* The Inline Formatter applied to one line.  The lines are all texts of   *)
(* at most MaxTokens tokens, and the example of the specification.         *)
(***************************************************************************)
MaxTokens == 5

InlineTokens ==
    {<<"a">>, Star, Star2, Under, <<"[">>, <<"]", "(">>, <<")">>}

RECURSIVE TokenTexts(_)
TokenTexts(n) ==
    IF n = 0 THEN {<<>>}
    ELSE LET T == TokenTexts(n - 1)
         IN T \cup {t \o k : t \in T, k \in InlineTokens}

ExampleHiThere == <<"*", "*", "h", "i", "*", "*", " ", "t", "h", "e", "r", "e">>

InlineLines == TokenTexts(MaxTokens) \cup {ExampleHiThere}

\* line_start and the list-item offsets are at least 1
StartPositions == {1, 4}

InitInline ==
    /\ pc_inline = "start"
    /\ line_text \in InlineLines
    /\ start_pos = 0
    /\ clean_text = <<>>
    /\ inline_requests = <<>>
    /\ runs = <<>>
    /\ ApiIdle /\ ParseIdle /\ DocIdle /\ TableIdle
       /\ ConvIdle /\ DirIdle /\ CliIdle /\ FmtIdle

RemoveInline ==
    /\ pc_inline = "start"
    /\ clean_text' = RemoveInlineMarkdown(line_text)
    /\ pc_inline' = "removed"
    /\ UNCHANGED <<line_text, start_pos, inline_requests, runs, inlineOthers>>

ApplyInline(sp) ==
    /\ pc_inline = "removed"
    /\ start_pos' = sp
    /\ inline_requests' = ApplyInlineFormatting(line_text, sp)
    /\ pc_inline' = "applied"
    /\ UNCHANGED <<line_text, clean_text, runs, inlineOthers>>

AddFormatted ==
    /\ pc_inline = "applied"
    /\ runs' = AddFormattedText(line_text)
    /\ pc_inline' = "added"
    /\ UNCHANGED <<line_text, start_pos, clean_text, inline_requests, inlineOthers>>

NextInline ==
    \/ RemoveInline
    \/ \E sp \in StartPositions : ApplyInline(sp)
    \/ AddFormatted

SpecInline == InitInline /\ [][NextInline]_vars

(***************************************************************************)
(* MermaidRenderer._render_with_api                                        *)
(***************************************************************************)
\* What one pass through the try block can end with: a 2xx answer saved to
\* output_path, an HTTPError raised by raise_for_status (by status code), an
\* exception of requests.get that is no HTTPError (connection, timeout), or
\* an exception while the image is written.
HttpErrors == {"429", "500", "503", "404", "502"}

ApiOutcomes == {"200"} \cup HttpErrors \cup {"network_failure", "save_failure"}

RetryableNo503(status) == status \in {"429", "500"}

Retryable(status) == status \in {"503", "429", "500"}

NextDelayConstant(d) == d

NextDelay(d) == d * 2

RetryAllowed(a) == a < max_retries - 1

ApiStart ==
    /\ pc_api = "request"
    /\ attempt = 0
    /\ retry_delay = initial_retry_delay
    /\ api_result = "none"
    /\ responses = <<>>
    /\ sleeps = <<>>

\* One pass through the try block and its except clauses.
ApiRequest(o) ==
    /\ pc_api = "request"
    /\ attempt < max_retries
    /\ responses' = Append(responses, o)
    /\ IF o = "200"
       THEN /\ api_result' = "True"
            /\ pc_api' = "done"
       ELSE IF o \in HttpErrors /\ RetryAllowed(attempt) /\ Retryable(o)
       THEN /\ api_result' = api_result
            /\ pc_api' = "sleep"
       ELSE /\ api_result' = "False"
            /\ pc_api' = "done"
    /\ UNCHANGED <<attempt, retry_delay, sleeps, apiOthers>>

\* time.sleep(retry_delay); retry_delay *= 2; then the next loop iteration,
\* or the return False after the loop.
ApiSleep ==
    /\ pc_api = "sleep"
    /\ sleeps' = Append(sleeps, retry_delay)
    /\ retry_delay' = NextDelay(retry_delay)
    /\ attempt' = attempt + 1
    /\ IF attempt + 1 < max_retries
       THEN /\ pc_api' = "request"
            /\ api_result' = api_result
       ELSE /\ pc_api' = "done"
            /\ api_result' = "False"
    /\ UNCHANGED <<responses, apiOthers>>

InitApi ==
    ApiStart /\ InlineIdle /\ ParseIdle /\ DocIdle
    /\ TableIdle /\ ConvIdle /\ DirIdle /\ CliIdle /\ FmtIdle

NextApi ==
    \/ \E o \in ApiOutcomes : ApiRequest(o)
    \/ ApiSleep

SpecApi == InitApi /\ [][NextApi]_vars

\* The loop runs synchronously and every attempt ends (requests.get has a
\* timeout), so a step that is possible is eventually taken.
FairSpecApi == SpecApi /\ WF_vars(NextApi)

(***************************************************************************)
(* parse_markdown of both backends, applied to one document.  The          *)
(* documents are the concatenations of at most MaxSegments lines: prose,   *)
(* table rows and fence lines.                                             *)
(***************************************************************************)
MaxSegments == 4

ParseSegments ==
    { <<"a", NL>>,
      <<"|", "a", "|", NL>>,
      Fence \o <<NL>>,
      Fence \o <<"m", "e", "r", "m", "a", "i", "d", NL>>,
      Fence \o <<"M", "e", "r", "m", "a", "i", "d", NL>>,
      Fence \o <<"p", "y", NL>>,
      <<"a", "|", "b", NL>> }

RECURSIVE SegmentTexts(_, _)
\* The concatenations of at most n elements of S.
SegmentTexts(S, n) ==
    IF n = 0 THEN {<<>>}
    ELSE LET shorter == SegmentTexts(S, n - 1)
         IN shorter \cup {t \o u : t \in shorter, u \in S}

InitParse ==
    /\ pc_parse = "start"
    /\ parser = "none"
    /\ markdown_text \in SegmentTexts(ParseSegments, MaxSegments)
    /\ blocks = <<>>
    /\ mermaid_diagrams = <<>>
    /\ ApiIdle /\ InlineIdle /\ DocIdle /\ TableIdle
       /\ ConvIdle /\ DirIdle /\ CliIdle /\ FmtIdle

\* The placeholder of a table that is not there: blocks.append raises.
Raises(bs) == \E n \in 1..Len(bs) : bs[n].type = "IndexError"

\* MarkdownToGoogleDocs.parse_markdown
ParseGdocs ==
    /\ pc_parse = "start"
    /\ LET r == ParseMarkdownGdocs(markdown_text)
       IN /\ blocks' = r.blocks
          /\ mermaid_diagrams' = r.diagrams
    /\ parser' = "gdocs"
    /\ pc_parse' = "parsed"
    /\ UNCHANGED <<markdown_text, parseOthers>>

\* MarkdownToDocx.parse_markdown
ParseDocx ==
    /\ pc_parse = "start"
    /\ LET r == ParseMarkdownDocx(markdown_text)
       IN IF Raises(r.blocks)
          THEN /\ pc_parse' = "raised"
               /\ UNCHANGED <<blocks, mermaid_diagrams>>
          ELSE /\ pc_parse' = "parsed"
               /\ blocks' = r.blocks
               /\ mermaid_diagrams' = r.diagrams
    /\ parser' = "docx"
    /\ UNCHANGED <<markdown_text, parseOthers>>

NextParse ==
    \/ ParseGdocs
    \/ ParseDocx

SpecParse == InitParse /\ [][NextParse]_vars

(***************************************************************************)
(* MarkdownToGoogleDocs.create_google_doc, from the point where the new    *)
(* document exists.  The blocks are what parse_markdown returns for a      *)
(* document of at most MaxDocSegments segments; mermaid_images holds, per  *)
(* diagram, the path of an image or the empty path of a failed render.     *)
(***************************************************************************)
MaxDocSegments == 3

DocSegments ==
    { <<"#", " ", "*", "*", "a", "*", "*", NL>>,
      <<"*", " ", "*", "a", "*", NL>>,
      <<"1", ".", " ", "a", NL>>,
      <<"*", "*", "a", "*", "*", " ", "b", NL>>,
      <<"*", "*", "_", "_", "a", "_", "_", "*", "*", NL>>,
      <<NL>>,
      Fence \o <<NL, "x", NL>> \o Fence \o <<NL>>,
      Fence \o <<"m", "e", "r", "m", "a", "i", "d", NL, "g", NL>> \o Fence \o <<NL>> }

\* The unit an inline image takes in the body of a document.
ImageUnit == "IMAGE"

\* What an insert request adds to the body.
UnitsOf(req) == IF req.kind = "insertText" THEN req.text ELSE <<ImageUnit>>

\* The backend takes an insert at an index inside the body: from 1 up to the
\* index of the newline that ends the body.
InsertValid(body, req) == req.index >= 1 /\ req.index <= Len(body)

InsertInto(body, req) ==
    SubSeq(body, 1, req.index - 1) \o UnitsOf(req)
    \o SubSeq(body, req.index, Len(body))

RECURSIVE ApplyInserts(_, _, _)
\* batchUpdate: the requests from the n-th on, applied in order.
ApplyInserts(body, reqs, n) ==
    IF n > Len(reqs) THEN [ok |-> TRUE, body |-> body]
    ELSE IF ~InsertValid(body, reqs[n]) THEN [ok |-> FALSE, body |-> body]
    ELSE ApplyInserts(InsertInto(body, reqs[n]), reqs, n + 1)

InsertAtStart(cur) == Min({cur, 1})

\* 'location': {'index': current_index}
InsertLocation(cur) == cur

\* current_index += len(text)
AdvanceAfterText(cur, text) == cur + Len(text)

AdvanceAfterImageNone(cur) == cur

\* current_index += 1
AdvanceAfterImage(cur) == cur + 1

CodeTextUnpadded(content) == content

\* f"\n{block['content']}\n"
CodeText(content) == <<NL>> \o content \o <<NL>>

\* The spacing inserted after an image.
ImageSpacing == <<NL, NL>>

InsertText(cur, text) ==
    [kind |-> "insertText", index |-> InsertLocation(cur), text |-> text]

InsertInlineImage(cur) ==
    [kind |-> "insertInlineImage", index |-> InsertLocation(cur)]

\* The entry of block_log after a block: the cursor and the queue lengths.
LogEntry(cur, ins, fmt) ==
    [cursor |-> cur, inserts |-> Len(ins), formats |-> Len(fmt)]

DocStart ==
    /\ pc_doc = "blocks"
    /\ block_i = 1
    /\ insert_requests = <<>>
    /\ format_requests = <<>>
    /\ current_index = 1
    /\ doc_body = EmptyBody
    /\ submitted = <<>>
    /\ doc_exc = "none"
    /\ block_log = <<>>

InitDoc ==
    /\ pc_parse = "parsed"
    /\ parser = "gdocs"
    /\ markdown_text \in SegmentTexts(DocSegments, MaxDocSegments)
    /\ blocks = ParseMarkdownGdocs(markdown_text).blocks
    /\ mermaid_diagrams = ParseMarkdownGdocs(markdown_text).diagrams
    /\ mermaid_images \in [1..Len(mermaid_diagrams) -> {<<>>, <<"p", "n", "g">>}]
    /\ DocStart
    /\ ApiIdle /\ InlineIdle /\ TableIdle /\ ConvIdle /\ DirIdle /\ CliIdle /\ FmtIdle

\* The branch of a markdown block.
ProcessMarkdown ==
    /\ pc_doc = "blocks"
    /\ block_i <= Len(blocks)
    /\ blocks[block_i].type = "markdown"
    /\ LET r == ParseMarkdownWithFormatting(blocks[block_i].content, current_index)
           ins == Append(insert_requests, InsertText(current_index, r.text))
           fmt == format_requests \o r.requests
           cur == AdvanceAfterText(current_index, r.text)
       IN /\ insert_requests' = ins
          /\ format_requests' = fmt
          /\ current_index' = cur
          /\ block_log' = Append(block_log, LogEntry(cur, ins, fmt))
    /\ block_i' = block_i + 1
    /\ UNCHANGED <<pc_doc, mermaid_images, doc_body, submitted, doc_exc, docOthers>>

\* The two styling requests of a code block, both over the inserted range.
CodeRequests(code_start, code_end) ==
    << [kind |-> "codeText", startIndex |-> code_start, endIndex |-> code_end],
       [kind |-> "codeParagraph", startIndex |-> code_start, endIndex |-> code_end] >>

\* The branch of a code block.
ProcessCode ==
    /\ pc_doc = "blocks"
    /\ block_i <= Len(blocks)
    /\ blocks[block_i].type = "code"
    /\ LET code_text == CodeText(blocks[block_i].content)
           ins == Append(insert_requests, InsertText(current_index, code_text))
           fmt == format_requests
                  \o CodeRequests(current_index, current_index + Len(code_text))
           cur == AdvanceAfterText(current_index, code_text)
       IN /\ insert_requests' = ins
          /\ format_requests' = fmt
          /\ current_index' = cur
          /\ block_log' = Append(block_log, LogEntry(cur, ins, fmt))
    /\ block_i' = block_i + 1
    /\ UNCHANGED <<pc_doc, mermaid_images, doc_body, submitted, doc_exc, docOthers>>

ImageExistsAlways(image_path) == image_path = image_path

\* os.path.exists(image_path): the path of a diagram that was not rendered
\* is empty.
ImageExists(image_path) == image_path # <<>>

\* The branch of a mermaid block; upload is the outcome of
\* upload_image_to_drive when the image exists.
ProcessMermaid(upload) ==
    /\ pc_doc = "blocks"
    /\ block_i <= Len(blocks)
    /\ blocks[block_i].type = "mermaid"
    /\ LET image_path == mermaid_images[blocks[block_i].index + 1]
       IN IF ~ImageExists(image_path)
          THEN /\ upload = "ok"
               /\ block_i' = block_i + 1
               /\ block_log' = Append(block_log,
                      LogEntry(current_index, insert_requests, format_requests))
               /\ UNCHANGED <<pc_doc, insert_requests, format_requests,
                              current_index, doc_exc>>
          ELSE IF upload = "fail"
          THEN /\ pc_doc' = "raised"
               /\ doc_exc' = "upload"
               /\ UNCHANGED <<block_i, insert_requests, format_requests,
                              current_index, block_log>>
          ELSE LET after_image == AdvanceAfterImage(current_index)
                   ins == insert_requests
                          \o <<InsertInlineImage(current_index),
                               InsertText(after_image, ImageSpacing)>>
                   cur == AdvanceAfterText(after_image, ImageSpacing)
               IN /\ insert_requests' = ins
                  /\ current_index' = cur
                  /\ block_i' = block_i + 1
                  /\ block_log' = Append(block_log,
                                         LogEntry(cur, ins, format_requests))
                  /\ UNCHANGED <<pc_doc, format_requests, doc_exc>>
    /\ UNCHANGED <<mermaid_images, doc_body, submitted, docOthers>>

AfterInsertFailureGoOn == "batch2"

\* Where create_google_doc is after the insert batch raised.
AfterInsertFailure == "raised"

\* Batch 1: the insertion queue in one batchUpdate, which applies all of its
\* requests in order or, when one is invalid or the call fails, none.
ExecuteInsertBatch(outcome) ==
    /\ pc_doc = "blocks"
    /\ block_i > Len(blocks)
    /\ IF insert_requests = <<>>
       THEN /\ outcome = "ok"
            /\ pc_doc' = "batch2"
            /\ UNCHANGED <<doc_body, submitted, doc_exc>>
       ELSE /\ submitted' = submitted \o insert_requests
            /\ LET r == ApplyInserts(doc_body, insert_requests, 1)
               IN IF outcome = "ok" /\ r.ok
                  THEN /\ doc_body' = r.body
                       /\ pc_doc' = "batch2"
                       /\ UNCHANGED doc_exc
                  ELSE /\ doc_exc' = "insert_batch"
                       /\ pc_doc' = AfterInsertFailure
                       /\ UNCHANGED doc_body
    /\ UNCHANGED <<mermaid_images, block_i, insert_requests, format_requests,
                   current_index, block_log, docOthers>>

\* Batch 2: the styling queue in one batchUpdate.
ExecuteFormatBatch(outcome) ==
    /\ pc_doc = "batch2"
    /\ IF format_requests = <<>>
       THEN /\ outcome = "ok"
            /\ pc_doc' = "returned"
            /\ UNCHANGED <<submitted, doc_exc>>
       ELSE /\ submitted' = submitted \o format_requests
            /\ IF outcome = "ok"
               THEN /\ pc_doc' = "returned"
                    /\ UNCHANGED doc_exc
               ELSE /\ pc_doc' = "raised"
                    /\ doc_exc' = "format_batch"
    /\ UNCHANGED <<mermaid_images, block_i, insert_requests, format_requests,
                   current_index, doc_body, block_log, docOthers>>

BatchOutcomes == {"ok", "fail"}

NextDoc ==
    \/ ProcessMarkdown
    \/ ProcessCode
    \/ \E upload \in BatchOutcomes : ProcessMermaid(upload)
    \/ \E outcome \in BatchOutcomes : ExecuteInsertBatch(outcome)
    \/ \E outcome \in BatchOutcomes : ExecuteFormatBatch(outcome)

SpecDoc == InitDoc /\ [][NextDoc]_vars

(***************************************************************************)
(* The renderer's construction and convert of both backends, from the      *)
(* point where the markdown file has been read: parse_markdown, the        *)
(* temporary directory, the loop that renders the diagrams, the builder's  *)
(* loop over the blocks, the save or the two batches, and the end of the   *)
(* with block.  Of a block only its type and its index matter here.        *)
(***************************************************************************)
MaxConvBlocks == 3

\* How a call that may raise ends.
CallOutcomes == {"ok", "raises"}

\* The pieces the markdown files are made of: a line of prose, a code
\* block, two mermaid blocks of different sources, a table.
ConvSegments ==
    { <<"a", NL>>,
      Fence \o <<NL, "x", NL>> \o Fence \o <<NL>>,
      Fence \o Mermaid \o <<NL, "g", NL>> \o Fence \o <<NL>>,
      Fence \o Mermaid \o <<NL, "h", NL>> \o Fence \o <<NL>>,
      <<"|", "a", "|", NL, "|", "a", "|", NL>> }

\* The positions of the mermaid blocks, in order.
MermaidPositions(q) == {n \in 1..Len(q) : q[n] = "mermaid"}

\* The number of mermaid blocks.
NumDiagrams(q) == Cardinality(MermaidPositions(q))

\* The number of mermaid blocks up to position n.
DiagramOf(q, n) == Cardinality({m \in MermaidPositions(q) : m <= n})

\* What can happen in _render_with_api: it returns True or False (see
\* SpecApi).
ApiRenderOutcomes == {"ok", "fail"}

\* What can happen in _render_with_cli: the tool writes the image; the tool
\* is missing or exits non-zero; creating or writing the temporary file
\* raises, before temp_mmd is assigned.
CliRenderOutcomes == {"ok", "tool_failed", "write_failed"}

\* The except handler of _render_with_cli: md2docx tests
\* 'temp_mmd' in locals() first, md2gdocs reads temp_mmd at once, which
\* raises UnboundLocalError out of the handler when it was never assigned.
CliHandler(bk, outcome) ==
    IF bk = "docx" \/ outcome # "write_failed" THEN "False" ELSE "raise"

\* _render_with_cli
RenderWithCli(bk, outcome) ==
    IF outcome = "ok" THEN "True" ELSE CliHandler(bk, outcome)

\* _render_with_api
RenderWithApi(outcome) == IF outcome = "ok" THEN "True" ELSE "False"

\* render_to_image
RenderToImage(bk, api, outcome) ==
    IF api THEN RenderWithApi(outcome) ELSE RenderWithCli(bk, outcome)

\* The method render_to_image hands the diagram to.
RenderPath(api) == IF api THEN "api" ELSE "cli"

ConstructedFlagAsRequested(req, tool) == req

\* MermaidRenderer.__init__: self.use_api after the check of the local tool.
ConstructedFlag(req, tool) == IF ~req /\ ~tool THEN TRUE ELSE req

\* os.path.join(temp_dir, f'mermaid_{i}.png')
ImagePath(i) == Mermaid \o <<"_">> \o IntToText(i) \o <<".", "p", "n", "g">>

CleanupNever(dir) == dir

\* The end of the with block: TemporaryDirectory removes the directory.
Cleanup(dir) == "deleted"

\* The files of the directory go with it.
FilesAfter(dir, files) == IF dir = "deleted" THEN {} ELSE files

\* parse_markdown of the backend
ParseMarkdownOf(bk, md) ==
    IF bk = "docx" THEN ParseMarkdownDocx(md) ELSE ParseMarkdownGdocs(md)

IndexOfBlockFirst(b) == IF b.type = "mermaid" THEN 0 ELSE -1

\* block['index'], or -1 for a block that has none.
IndexOfBlock(b) == IF b.type = "mermaid" THEN b.index ELSE -1

InitConvert ==
    /\ pc_conv = "new"
    /\ backend \in {"gdocs", "docx"}
    /\ use_api = TRUE
    /\ conv_text \in SegmentTexts(ConvSegments, MaxConvBlocks)
    /\ conv_blocks = <<>>
    /\ conv_index = <<>>
    /\ conv_codes = <<>>
    /\ diagram_i = 1
    /\ conv_images = <<>>
    /\ built = <<>>
    /\ conv_block_i = 1
    /\ conv_exc = "none"
    /\ render_outcomes = <<>>
    /\ rendered = <<>>
    /\ temp_dir = "none"
    /\ temp_files = {}
    /\ requested = TRUE
    /\ tool_available = TRUE
    /\ paths_taken = <<>>
    /\ picked = <<>>
    /\ ApiIdle /\ InlineIdle /\ ParseIdle /\ DocIdle
       /\ TableIdle /\ DirIdle /\ CliIdle /\ FmtIdle

\* MermaidRenderer(use_api=req), with the local tool there or not.
ConstructRenderer(req, tool) ==
    /\ pc_conv = "new"
    /\ requested' = req
    /\ tool_available' = tool
    /\ use_api' = ConstructedFlag(req, tool)
    /\ pc_conv' = "parse"
    /\ UNCHANGED <<backend, conv_blocks, diagram_i, conv_images, built,
                   conv_block_i, conv_exc, render_outcomes, conv_text,
                   conv_index, conv_codes, rendered, temp_dir, temp_files,
                   paths_taken, picked, convOthers>>

\* blocks, mermaid_codes = self.parse_markdown(markdown_content)
ConvertParse ==
    /\ pc_conv = "parse"
    /\ LET r == ParseMarkdownOf(backend, conv_text)
       IN IF Raises(r.blocks)
          THEN /\ pc_conv' = "raised"
               /\ conv_exc' = "parse"
               /\ UNCHANGED <<conv_blocks, conv_index, conv_codes>>
          ELSE /\ conv_blocks' = [n \in 1..Len(r.blocks) |-> r.blocks[n].type]
               /\ conv_index' = [n \in 1..Len(r.blocks) |-> IndexOfBlock(r.blocks[n])]
               /\ conv_codes' = r.diagrams
               /\ pc_conv' = "tempdir"
               /\ UNCHANGED conv_exc
    /\ UNCHANGED <<backend, use_api, diagram_i, conv_images, built,
                   conv_block_i, render_outcomes, conv_text, rendered,
                   temp_dir, temp_files, requested, tool_available,
                   paths_taken, picked, convOthers>>

\* with tempfile.TemporaryDirectory() as temp_dir
EnterTempDir(outcome) ==
    /\ pc_conv = "tempdir"
    /\ IF outcome = "ok"
       THEN /\ temp_dir' = "exists"
            /\ pc_conv' = "render"
            /\ UNCHANGED conv_exc
       ELSE /\ pc_conv' = "raised"
            /\ conv_exc' = "tempdir"
            /\ UNCHANGED temp_dir
    /\ UNCHANGED <<backend, use_api, conv_blocks, diagram_i, conv_images, built,
                   conv_block_i, render_outcomes, conv_text, conv_index,
                   conv_codes, rendered, temp_files, requested, tool_available,
                   paths_taken, picked, convOthers>>

\* One iteration of the loop over mermaid_codes.
RenderDiagram(outcome) ==
    /\ pc_conv = "render"
    /\ diagram_i <= Len(conv_codes)
    /\ outcome \in (IF use_api THEN ApiRenderOutcomes ELSE CliRenderOutcomes)
    /\ render_outcomes' = Append(render_outcomes, outcome)
    /\ rendered' = Append(rendered, conv_codes[diagram_i])
    /\ paths_taken' = Append(paths_taken, RenderPath(use_api))
    /\ LET result == RenderToImage(backend, use_api, outcome)
           image_path == ImagePath(diagram_i - 1)
       IN IF result = "raise"
          THEN /\ pc_conv' = "raised"
               /\ conv_exc' = "render"
               /\ temp_dir' = Cleanup(temp_dir)
               /\ temp_files' = FilesAfter(temp_dir', temp_files)
               /\ UNCHANGED <<conv_images, diagram_i>>
          ELSE /\ conv_images' =
                     Append(conv_images, IF result = "True" THEN image_path ELSE <<>>)
               /\ temp_files' = IF result = "True"
                                THEN temp_files \cup {image_path}
                                ELSE temp_files
               /\ diagram_i' = diagram_i + 1
               /\ UNCHANGED <<pc_conv, conv_exc, temp_dir>>
    /\ UNCHANGED <<backend, use_api, conv_blocks, built, conv_block_i, conv_text,
                   conv_index, conv_codes, requested, tool_available, picked,
                   convOthers>>

\* The loop over mermaid_codes is over: the builder is called.
StartBuild ==
    /\ pc_conv = "render"
    /\ diagram_i > Len(conv_codes)
    /\ pc_conv' = "build"
    /\ UNCHANGED <<backend, use_api, conv_blocks, diagram_i, conv_images, built,
                   conv_block_i, conv_exc, render_outcomes, conv_text,
                   conv_index, conv_codes, rendered, temp_dir, temp_files,
                   requested, tool_available, paths_taken, picked, convOthers>>

\* One iteration of the builder's loop over blocks.  A mermaid block looks
\* its image up by its index, which raises IndexError beyond the list; a
\* block whose image does not exist is skipped; in md2gdocs the upload of an
\* image may raise.
BuildBlock(outcome) ==
    /\ pc_conv = "build"
    /\ conv_block_i <= Len(conv_blocks)
    /\ LET ty == conv_blocks[conv_block_i]
           in_range == conv_index[conv_block_i] + 1 \in 1..Len(conv_images)
           image_path == conv_images[conv_index[conv_block_i] + 1]
           absent == ty = "mermaid" /\ image_path \notin temp_files
           uploads == ty = "mermaid" /\ ~absent /\ backend = "gdocs"
       IN IF ty = "mermaid" /\ ~in_range
          THEN /\ outcome = "ok"
               /\ pc_conv' = "raised"
               /\ conv_exc' = "lookup"
               /\ temp_dir' = Cleanup(temp_dir)
               /\ temp_files' = FilesAfter(temp_dir', temp_files)
               /\ UNCHANGED <<built, conv_block_i, picked>>
          ELSE IF outcome = "fail"
          THEN /\ uploads
               /\ pc_conv' = "raised"
               /\ conv_exc' = "build"
               /\ picked' = Append(picked, image_path)
               /\ temp_dir' = Cleanup(temp_dir)
               /\ temp_files' = FilesAfter(temp_dir', temp_files)
               /\ UNCHANGED <<built, conv_block_i>>
          ELSE /\ built' = IF absent THEN built ELSE Append(built, conv_block_i)
               /\ picked' = IF ty = "mermaid" THEN Append(picked, image_path)
                            ELSE picked
               /\ conv_block_i' = conv_block_i + 1
               /\ UNCHANGED <<pc_conv, conv_exc, temp_dir, temp_files>>
    /\ UNCHANGED <<backend, use_api, conv_blocks, diagram_i, conv_images,
                   render_outcomes, conv_text, conv_index, conv_codes, rendered,
                   requested, tool_available, paths_taken, convOthers>>

\* doc.save, or the two batches of create_google_doc, and the end of the
\* with block on the way out.
FinishDocument(outcome) ==
    /\ pc_conv = "build"
    /\ conv_block_i > Len(conv_blocks)
    /\ IF outcome = "ok"
       THEN pc_conv' = "done" /\ UNCHANGED conv_exc
       ELSE pc_conv' = "raised" /\ conv_exc' = "build"
    /\ temp_dir' = Cleanup(temp_dir)
    /\ temp_files' = FilesAfter(temp_dir', temp_files)
    /\ UNCHANGED <<backend, use_api, conv_blocks, diagram_i, conv_images, built,
                   conv_block_i, render_outcomes, conv_text, conv_index,
                   conv_codes, rendered, requested, tool_available,
                   paths_taken, picked, convOthers>>

NextConvert ==
    \/ \E req, tool \in BOOLEAN : ConstructRenderer(req, tool)
    \/ ConvertParse
    \/ \E outcome \in CallOutcomes : EnterTempDir(outcome)
    \/ \E outcome \in CliRenderOutcomes \cup ApiRenderOutcomes : RenderDiagram(outcome)
    \/ StartBuild
    \/ \E outcome \in BatchOutcomes : BuildBlock(outcome)
    \/ \E outcome \in BatchOutcomes : FinishDocument(outcome)

SpecConvert == InitConvert /\ [][NextConvert]_vars

(***************************************************************************)
(* main of both backends, from the point where the path exists and the     *)
(* converter is made: one file, or convert_directory over the markdown     *)
(* files of a directory.  A call of convert ends by returning or by        *)
(* raising an Exception; in md2gdocs it begins with authenticate, which    *)
(* may raise as well.                                                      *)
(***************************************************************************)
MaxFiles == 3

InitDir ==
    /\ pc_dir = "start"
    /\ dir_backend \in {"gdocs", "docx"}
    /\ dir_mode \in {"single", "directory"}
    /\ md_files \in (IF dir_mode = "single" THEN {1} ELSE 0..MaxFiles)
    /\ file_i = 1
    /\ attempts = <<>>
    /\ file_outcomes = <<>>
    /\ converted = 0
    /\ report = "none"
    /\ exit_status = -1
    /\ auth_failed_at = -1
    /\ ApiIdle /\ InlineIdle /\ ParseIdle /\ DocIdle
    /\ TableIdle /\ ConvIdle /\ CliIdle /\ FmtIdle

\* How one call of convert ends: in md2gdocs authenticate runs first.
ConvertEnds(bk, auth, outcome) ==
    IF bk = "gdocs" /\ auth = "raises" THEN "auth_raises"
    ELSE IF outcome = "raises" THEN "raises"
    ELSE "ok"

StopAfterFailure(i, n) == n + 1

\* except Exception ... continue: the loop goes on with the next file.
NextAfterFailure(i, n) == i + 1

\* convert_directory up to its loop: authenticate (md2gdocs), the list of
\* files, the early return for an empty list, mkdir of the output directory
\* (md2docx).  outcome is that of authenticate or of mkdir.
DirSetup(outcome) ==
    /\ pc_dir = "start"
    /\ dir_mode = "directory"
    /\ IF dir_backend = "gdocs"
       THEN IF outcome = "raises"
            THEN pc_dir' = "raised" /\ auth_failed_at' = 0
            ELSE /\ pc_dir' = IF md_files = 0 THEN "returned" ELSE "loop"
                 /\ UNCHANGED auth_failed_at
       ELSE /\ IF md_files = 0
               THEN outcome = "ok" /\ pc_dir' = "returned"
               ELSE pc_dir' = IF outcome = "raises" THEN "raised" ELSE "loop"
            /\ UNCHANGED auth_failed_at
    /\ UNCHANGED <<dir_backend, dir_mode, md_files, file_i, attempts,
                   file_outcomes, converted, report, exit_status, dirOthers>>

\* One iteration of the loop over md_files.
ConvertFile(auth, outcome) ==
    /\ pc_dir = "loop"
    /\ file_i <= md_files
    /\ dir_backend = "docx" => auth = "ok"
    /\ attempts' = Append(attempts, file_i)
    /\ LET ends == ConvertEnds(dir_backend, auth, outcome)
       IN /\ file_outcomes' = Append(file_outcomes, ends)
          /\ converted' = IF ends = "ok" THEN converted + 1 ELSE converted
          /\ file_i' = IF ends = "ok" THEN file_i + 1
                       ELSE NextAfterFailure(file_i, md_files)
          /\ auth_failed_at' =
                IF ends = "auth_raises" /\ auth_failed_at = -1
                THEN Len(attempts) + 1 ELSE auth_failed_at
    /\ UNCHANGED <<pc_dir, dir_backend, dir_mode, md_files, report, exit_status,
                   dirOthers>>

\* The loop is over: the Completed line, and the return to main.
DirReport ==
    /\ pc_dir = "loop"
    /\ file_i > md_files
    /\ report' = <<converted, md_files>>
    /\ pc_dir' = "returned"
    /\ UNCHANGED <<dir_backend, dir_mode, md_files, file_i, attempts,
                   file_outcomes, converted, exit_status, auth_failed_at, dirOthers>>

\* main with a file: one call of convert.
ConvertSingle(auth, outcome) ==
    /\ pc_dir = "start"
    /\ dir_mode = "single"
    /\ dir_backend = "docx" => auth = "ok"
    /\ attempts' = <<1>>
    /\ LET ends == ConvertEnds(dir_backend, auth, outcome)
       IN /\ file_outcomes' = <<ends>>
          /\ converted' = IF ends = "ok" THEN 1 ELSE 0
          /\ pc_dir' = IF ends = "ok" THEN "returned" ELSE "raised"
          /\ auth_failed_at' = IF ends = "auth_raises" THEN 1 ELSE -1
    /\ UNCHANGED <<dir_backend, dir_mode, md_files, file_i, report, exit_status,
                   dirOthers>>

\* main: return 0, or return 1 from its except clause.
MainReturn ==
    /\ pc_dir \in {"returned", "raised"}
    /\ exit_status' = IF pc_dir = "returned" THEN 0 ELSE 1
    /\ pc_dir' = "exited"
    /\ UNCHANGED <<dir_backend, dir_mode, md_files, file_i, attempts,
                   file_outcomes, converted, report, auth_failed_at, dirOthers>>

NextDir ==
    \/ \E outcome \in CallOutcomes : DirSetup(outcome)
    \/ \E auth \in CallOutcomes, outcome \in CallOutcomes : ConvertFile(auth, outcome)
    \/ DirReport
    \/ \E auth \in CallOutcomes, outcome \in CallOutcomes : ConvertSingle(auth, outcome)
    \/ MainReturn

SpecDir == InitDir /\ [][NextDir]_vars

(***************************************************************************)
(* MermaidRenderer._render_with_cli step by step, called for each of the   *)
(* diagrams of one document in turn.  NamedTemporaryFile(delete=False)     *)
(* makes a file that stays until os.unlink removes it; temp_mmd is         *)
(* assigned after f.write has returned.                                    *)
(***************************************************************************)
MaxCliCalls == 3

ToolOutcomes == {"ok", "nonzero_exit", "tool_missing"}

InitCli ==
    /\ pc_cli = "create"
    /\ cli_backend \in {"gdocs", "docx"}
    /\ cli_call = 1
    /\ cli_calls \in 1..MaxCliCalls
    /\ temp_exists = FALSE
    /\ temp_bound = FALSE
    /\ cli_failure = "none"
    /\ cli_results = <<>>
    /\ leaked = {}
    /\ ApiIdle /\ InlineIdle /\ ParseIdle /\ DocIdle
    /\ TableIdle /\ ConvIdle /\ DirIdle /\ FmtIdle

\* tempfile.NamedTemporaryFile(mode='w', suffix='.mmd', delete=False)
CreateTemp(outcome) ==
    /\ pc_cli = "create"
    /\ IF outcome = "ok"
       THEN /\ temp_exists' = TRUE
            /\ pc_cli' = "write"
            /\ UNCHANGED cli_failure
       ELSE /\ cli_failure' = "create"
            /\ pc_cli' = "handler"
            /\ UNCHANGED temp_exists
    /\ UNCHANGED <<cli_backend, cli_call, cli_calls, temp_bound, cli_results,
                   leaked, cliOthers>>

\* f.write(mermaid_code), then temp_mmd = f.name
WriteSource(outcome) ==
    /\ pc_cli = "write"
    /\ IF outcome = "ok"
       THEN /\ temp_bound' = TRUE
            /\ pc_cli' = "tool"
            /\ UNCHANGED cli_failure
       ELSE /\ cli_failure' = "write"
            /\ pc_cli' = "handler"
            /\ UNCHANGED temp_bound
    /\ UNCHANGED <<cli_backend, cli_call, cli_calls, temp_exists, cli_results,
                   leaked, cliOthers>>

\* subprocess.run(['mmdc', ...], check=True, capture_output=True)
RunTool(outcome) ==
    /\ pc_cli = "tool"
    /\ IF outcome = "ok"
       THEN pc_cli' = "unlink" /\ UNCHANGED cli_failure
       ELSE pc_cli' = "handler" /\ cli_failure' = outcome
    /\ UNCHANGED <<cli_backend, cli_call, cli_calls, temp_exists, temp_bound,
                   cli_results, leaked, cliOthers>>

\* os.unlink(temp_mmd); return True
UnlinkAndReturn ==
    /\ pc_cli = "unlink"
    /\ temp_exists' = FALSE
    /\ cli_results' = Append(cli_results, "True")
    /\ pc_cli' = "ended"
    /\ UNCHANGED <<cli_backend, cli_call, cli_calls, temp_bound, cli_failure,
                   leaked, cliOthers>>

\* What the except handler has seen of the try block.
SeenByHandler(bound) == IF bound THEN "tool_failed" ELSE "write_failed"

\* The handler removes the file when temp_mmd names it.
HandlerUnlinks(bound) == bound

\* except Exception: the file is removed when temp_mmd names it, and the
\* call ends with False or, in md2gdocs with temp_mmd unassigned, by raising.
Handler ==
    /\ pc_cli = "handler"
    /\ temp_exists' = IF HandlerUnlinks(temp_bound) THEN FALSE ELSE temp_exists
    /\ cli_results' = Append(cli_results, CliHandler(cli_backend, SeenByHandler(temp_bound)))
    /\ leaked' = IF temp_exists' THEN leaked \cup {cli_call} ELSE leaked
    /\ pc_cli' = "ended"
    /\ UNCHANGED <<cli_backend, cli_call, cli_calls, temp_bound, cli_failure,
                   cliOthers>>

\* convert calls render_to_image for the next diagram, unless the last call
\* raised.
NextCall ==
    /\ pc_cli = "ended"
    /\ cli_call < cli_calls
    /\ cli_results[Len(cli_results)] # "raise"
    /\ cli_call' = cli_call + 1
    /\ pc_cli' = "create"
    /\ temp_exists' = FALSE
    /\ temp_bound' = FALSE
    /\ cli_failure' = "none"
    /\ UNCHANGED <<cli_backend, cli_calls, cli_results, leaked, cliOthers>>

NextCli ==
    \/ \E outcome \in CallOutcomes : CreateTemp(outcome)
    \/ \E outcome \in CallOutcomes : WriteSource(outcome)
    \/ \E outcome \in ToolOutcomes : RunTool(outcome)
    \/ UnlinkAndReturn
    \/ Handler
    \/ NextCall

SpecCli == InitCli /\ [][NextCli]_vars

(***************************************************************************)
(* Properties of _render_with_api                                          *)
(***************************************************************************)
IsPrefix(s, t) == Len(s) <= Len(t) /\ SubSeq(t, 1, Len(s)) = s

Last(s) == s[Len(s)]

Scenario503 == <<"503", "503", "200">>

\* C1: when the endpoint answers 503, 503, 200 the call goes on after each
\* 503 and returns True after exactly 3 attempts and exactly the two sleeps
\* made in between; when it answers 404 the call returns False after
\* exactly 1 attempt and no sleep.
C1_RetryScenario ==
    /\ (responses # <<>> /\ IsPrefix(responses, Scenario503)) =>
           IF responses = Scenario503
           THEN /\ pc_api = "done"
                /\ api_result = "True"
                /\ Len(responses) = 3
                /\ Len(sleeps) = 2
           ELSE /\ pc_api \in {"sleep", "request"}
                /\ api_result = "none"
                /\ Len(sleeps) =
                       IF pc_api = "sleep" THEN Len(responses) - 1
                                           ELSE Len(responses)
    /\ (responses # <<>> /\ responses[1] = "404") =>
           /\ pc_api = "done"
           /\ api_result = "False"
           /\ Len(responses) = 1
           /\ sleeps = <<>>

C1_Witness ==
    /\ pc_api = "done"
    /\ responses = Scenario503
    /\ api_result = "True"

C2_Inv ==
    \* at most 3 attempts, and the call ends with True or False
    /\ Len(responses) <= 3
    /\ pc_api = "done" => api_result \in {"True", "False"}
    /\ pc_api # "done" => api_result = "none" /\ ENABLED NextApi
    \* attempt k+1 only after a 429, 500 or 503
    /\ \A k \in 1..(Len(responses) - 1) : responses[k] \in {"429", "500", "503"}
    \* 2 seconds before attempt 2, 4 seconds before attempt 3, nothing else
    /\ IsPrefix(sleeps, <<2, 4>>)
    /\ Len(sleeps) = IF pc_api = "request" THEN Len(responses)
                     ELSE Len(responses) - 1
    /\ responses # <<>> =>
         \* success ends the call with True
         /\ Last(responses) = "200" => pc_api = "done" /\ api_result = "True"
         \* any other HTTP error, or a failure that is no HTTP error, ends it
         \* at once with False
         /\ Last(responses) \notin {"200", "429", "500", "503"} =>
                pc_api = "done" /\ api_result = "False"
         \* a third retryable failure returns False without another sleep
         /\ (Len(responses) = 3 /\ Last(responses) \in {"429", "500", "503"}) =>
                pc_api = "done" /\ api_result = "False" /\ sleeps = <<2, 4>>
         \* a first or second retryable failure is retried
         /\ (Len(responses) < 3 /\ Last(responses) \in {"429", "500", "503"}) =>
                pc_api \in {"sleep", "request"}

\* C2: for every sequence of endpoint outcomes the call terminates with True
\* or False after at most 3 attempts; a further attempt follows only a 429,
\* 500 or 503; the sleeps are 2 s and then 4 s; every other failure ends the
\* call at once, and so does the third retryable failure, without a sleep.
C2_BoundedRetry == [](C2_Inv) /\ <>(pc_api = "done")

C2_Witness ==
    /\ pc_api = "done"
    /\ Len(responses) = 3
    /\ Last(responses) = "503"
    /\ api_result = "False"

(***************************************************************************)
(* Properties of the Inline Formatter                                      *)
(***************************************************************************)
\* Python's s[a:b] for 0 <= a: the end is clamped to the length.
PySlice(s, a, b) == SubSeq(s, a + 1, IF b > Len(s) THEN Len(s) ELSE b)

\* The bold requests come first in inline_requests, one per match of the
\* bold pattern, in order.
BoldMatches == BoldMatchesFrom(line_text, 1)

\* The text between the markers of the n-th bold construct.
BoldedText(n) == SubSeq(line_text, BoldMatches[n][1] + 2, BoldMatches[n][2] - 1)

\* C6: slicing the plain text of a line at a Bold request's range, taken
\* relative to start_pos, yields the bolded substring with its markers
\* stripped (the text between the markers, or that text cleaned in turn);
\* for '**hi** there' the plain text is 'hi there' and there is exactly one
\* Bold request, covering [0,2).
C6_BoldRoundTrip ==
    pc_inline \in {"applied", "added"} =>
        /\ \A n \in 1..Len(BoldMatches) :
               /\ inline_requests[n].kind = "bold"
               /\ PySlice(clean_text,
                          inline_requests[n].startIndex - start_pos,
                          inline_requests[n].endIndex - start_pos)
                      \in {BoldedText(n), RemoveInlineMarkdown(BoldedText(n))}
        /\ line_text = ExampleHiThere =>
               /\ clean_text = <<"h", "i", " ", "t", "h", "e", "r", "e">>
               /\ inline_requests =
                      <<[kind |-> "bold", startIndex |-> start_pos,
                         endIndex |-> start_pos + 2]>>

\* The example of C6 taken alone.
C6_Example ==
    (pc_inline \in {"applied", "added"} /\ line_text = ExampleHiThere) =>
        /\ clean_text = <<"h", "i", " ", "t", "h", "e", "r", "e">>
        /\ inline_requests =
               <<[kind |-> "bold", startIndex |-> start_pos,
                  endIndex |-> start_pos + 2]>>

MarkerFree(text) == \A i \in 1..Len(text) : text[i] \notin {"*", "_", "["}

\* C7: on a line free of markdown markers _remove_inline_markdown returns
\* its input, _apply_inline_formatting appends no request,
\* _add_formatted_text adds only unstyled runs whose concatenation is the
\* input, and the formatter applied to its own plain-text output changes
\* nothing.
C7_MarkerFreeUnchanged ==
    MarkerFree(line_text) =>
        /\ pc_inline \in {"removed", "applied", "added"} =>
               /\ clean_text = line_text
               /\ RemoveInlineMarkdown(clean_text) = clean_text
        /\ pc_inline \in {"applied", "added"} =>
               /\ inline_requests = <<>>
               /\ ApplyInlineFormatting(clean_text, start_pos) = <<>>
        /\ pc_inline = "added" =>
               /\ \A n \in 1..Len(runs) : runs[n].style = "plain"
               /\ ConcatRuns(runs) = line_text
               /\ AddFormattedText(ConcatRuns(runs)) = runs

C7_Witness ==
    /\ pc_inline = "added"
    /\ MarkerFree(line_text)
    /\ Len(line_text) >= 3
    /\ \E i \in 1..Len(line_text) : line_text[i] = "("

Count(text, c) == Cardinality({i \in 1..Len(text) : text[i] = c})

\* An opening bracket, later a closing bracket with an opening parenthesis
\* right after it, later a closing parenthesis.
HasLinkShape(text) ==
    \E i, j, k \in 1..Len(text) :
       /\ i < j /\ j + 1 < k
       /\ text[i] = "[" /\ text[j] = "]" /\ text[j + 1] = "(" /\ text[k] = ")"

\* No bold, italic or link construct can be recognised in the line: no
\* marker has a partner.
NoConstruct(text) ==
    /\ Count(text, "*") <= 1
    /\ Count(text, "_") <= 1
    /\ ~HasLinkShape(text)

\* C18: a line in which no construct can be recognised is literal text all
\* through, a marker without a closing partner included, and comes out
\* unchanged: as the cleaned text of md2gdocs and as the concatenation of the
\* runs of md2docx.
C18_LiteralUnchanged ==
    NoConstruct(line_text) =>
        /\ pc_inline \in {"removed", "applied", "added"} => clean_text = line_text
        /\ pc_inline = "added" => ConcatRuns(runs) = line_text

\* The same of _remove_inline_markdown alone.
C18_CleanedText ==
    (NoConstruct(line_text) /\ pc_inline \in {"removed", "applied", "added"})
       => clean_text = line_text

\* C24: at the start of every line of the loop and on return, current_pos
\* is start_index plus the length of the text built so far, so the
\* line_start of every line is the offset in the document at which the text
\* of the line is inserted.
C24_PositionInStep ==
    pc_fmt \in {"loop", "returned"} =>
        /\ fmt_pos = fmt_start + Len(result_text)
        /\ \A n \in 1..Len(line_log) :
              line_log[n].line_start = fmt_start + line_log[n].offset

\* Three lines have been processed, an indented bullet among them, with
\* styling requests, and the call has returned.
C24_Witness ==
    /\ pc_fmt = "returned"
    /\ Len(line_log) = 3
    /\ line_log[3].offset > 3
    /\ fmt_requests # <<>>
    /\ \E i \in 1..Len(result_text) : result_text[i] = Bullet
    /\ \E i \in 1..Len(result_text) : result_text[i] = "."

(***************************************************************************)
(* Properties of parse_markdown                                            *)
(***************************************************************************)
\* The fenced blocks of the document as it was handed in: the parts of the
\* document split at the fence pattern, three per fenced block.
FencedParts == SplitFences(markdown_text, 1, 1)

\* The sources of the fenced blocks tagged mermaid, in document order.
MermaidSources == DiagramsOfParts(FencedParts, 1)

\* The number of fenced blocks.
FencedCount == (Len(FencedParts) - 1) \div 3

BlocksOfType(ty) == {n \in 1..Len(blocks) : blocks[n].type = ty}

\* The DiagramRefs are those of the mermaid blocks of the document, one
\* each and in order, the Code blocks are the other fenced blocks, and the
\* k-th diagram stored stands in relation same(stored, source) to the source
\* of the k-th mermaid block.
DiagramRefs(same(_, _)) ==
    /\ Cardinality(BlocksOfType("mermaid")) = Len(MermaidSources)
    /\ Cardinality(BlocksOfType("code")) = FencedCount - Len(MermaidSources)
    /\ Len(mermaid_diagrams) = Len(MermaidSources)
    /\ \A k \in 1..Len(MermaidSources) :
          /\ \E n \in BlocksOfType("mermaid") :
                /\ blocks[n].index = k - 1
                /\ \A m \in BlocksOfType("mermaid") :
                      blocks[m].index = k - 1 => m = n
          /\ k <= Len(mermaid_diagrams)
          /\ same(mermaid_diagrams[k], MermaidSources[k])

IsTrimmedSource(stored, source) == stored = Trim(source)

SameUpToWhitespace(stored, source) == Trim(stored) = Trim(source)

\* C8: for every fenced block tagged mermaid (in any letter case) the parser
\* returns exactly one DiagramRef, whose index resolves in the returned
\* diagram list to exactly that block's trimmed source text, and no Code
\* block for it.
C8_MermaidDiagramRef ==
    pc_parse = "parsed" => DiagramRefs(IsTrimmedSource)

\* The same with the stored diagram compared up to surrounding white space:
\* it fails in md2docx alone, and holds of MarkdownToGoogleDocs.parse_markdown.
C8_UpToWhitespace ==
    pc_parse = "parsed" => DiagramRefs(SameUpToWhitespace)

C8_GdocsUpToWhitespace ==
    (pc_parse = "parsed" /\ parser = "gdocs") => DiagramRefs(SameUpToWhitespace)

RECURSIVE CodeOfParts(_, _)
\* The literal texts between the fences of the fenced blocks that are not
\* tagged mermaid, in document order.
CodeOfParts(parts, n) ==
    IF n + 2 > Len(parts) THEN <<>>
    ELSE (IF IsMermaid(parts[n + 1]) THEN <<>> ELSE <<parts[n + 2]>>)
         \o CodeOfParts(parts, n + 3)

\* The contents of the Code blocks, in block order.
CodeContents ==
    LET code == SelectSeq(blocks, LAMBDA b : b.type = "code")
    IN [n \in 1..Len(code) |-> code[n].content]

\* The text occurs in a part of the document outside the fences.
InProse(text) ==
    \E k \in 1..Len(FencedParts) :
       /\ k % 3 = 1
       /\ \E i \in 1..Len(FencedParts[k]) : StartsAt(FencedParts[k], i, text)

\* C14: in md2docx the Code blocks carry, in order, exactly the literal text
\* between the fences of the fenced regions not tagged mermaid, and every
\* Table block holds lines that stand outside the fences.
C14_FencedPipesAreCode ==
    (pc_parse = "parsed" /\ parser = "docx")
       => /\ CodeContents = CodeOfParts(FencedParts, 1)
          /\ \A n \in BlocksOfType("table") : InProse(blocks[n].content)

\* The same of the documents whose fenced regions hold no two consecutive
\* pipe-delimited lines.
C14_NoTableInFence ==
    (/\ pc_parse = "parsed"
     /\ parser = "docx"
     /\ \A k \in 1..Len(FencedParts) :
           k % 3 = 0 => TableMatches(FencedParts[k], 1) = <<>>)
       => CodeContents = CodeOfParts(FencedParts, 1)

HasPipe(line) == \E i \in 1..Len(line) : line[i] = "|"

RECURSIVE PipeRunEnd(_, _)
\* The last line of the run of lines with a pipe that starts at line i.
PipeRunEnd(lines, i) ==
    IF i + 1 <= Len(lines) /\ HasPipe(lines[i + 1])
    THEN PipeRunEnd(lines, i + 1)
    ELSE i

RECURSIVE JoinLines(_, _, _)
\* Lines i to e, with a line break between one and the next.
JoinLines(lines, i, e) ==
    IF i = e THEN lines[i]
    ELSE lines[i] \o <<NL>> \o JoinLines(lines, i + 1, e)

RECURSIVE PipeRuns(_, _)
\* The maximal runs of two or more consecutive lines that each hold a pipe,
\* from line i on, in order.
PipeRuns(lines, i) ==
    IF i > Len(lines) THEN <<>>
    ELSE IF ~HasPipe(lines[i]) THEN PipeRuns(lines, i + 1)
    ELSE IF PipeRunEnd(lines, i) > i
         THEN <<JoinLines(lines, i, PipeRunEnd(lines, i))>>
              \o PipeRuns(lines, PipeRunEnd(lines, i) + 1)
         ELSE PipeRuns(lines, i + 1)

RECURSIVE AsTables(_)
AsTables(rs) ==
    IF rs = <<>> THEN <<>>
    ELSE <<<<"table", rs[1]>>>> \o AsTables(Tail(rs))

RECURSIVE TablesAndFences(_, _)
\* The tables and the fenced regions of the document in document order:
\* the runs of pipe lines of each part outside the fences, and a mark for
\* each fenced region.
TablesAndFences(parts, n) ==
    AsTables(PipeRuns(SplitLines(parts[n]), 1))
    \o (IF n + 2 > Len(parts) THEN <<>>
        ELSE <<<<"fenced", <<>>>>>> \o TablesAndFences(parts, n + 3))

\* The Table blocks and the blocks of the fenced regions, in block order.
TableAndFencedBlocks ==
    LET bs == SelectSeq(blocks, LAMBDA b : b.type # "markdown")
    IN [n \in 1..Len(bs) |->
           IF bs[n].type = "table" THEN <<"table", bs[n].content>>
           ELSE <<"fenced", <<>>>>]

\* C15: in md2docx every maximal run of two or more consecutive lines outside
\* the fences that each hold a pipe is one Table block holding those lines,
\* at the place of the run in document order, and there is no other Table
\* block (a single line with a pipe is none).
C15_PipeRunsAreTables ==
    (pc_parse = "parsed" /\ parser = "docx")
       => TableAndFencedBlocks = TablesAndFences(FencedParts, 1)

\* The same of the documents whose lines with a pipe, outside the fences,
\* begin and end with one and have a character in between.
DelimitedRow(line) ==
    HasPipe(line) => /\ Len(line) >= 3
                     /\ line[1] = "|"
                     /\ line[Len(line)] = "|"

C15_DelimitedRows ==
    (/\ pc_parse = "parsed"
     /\ parser = "docx"
     /\ \A k \in 1..Len(FencedParts) :
           k % 3 = 1 => \A n \in 1..Len(SplitLines(FencedParts[k])) :
                           DelimitedRow(SplitLines(FencedParts[k])[n]))
       => TableAndFencedBlocks = TablesAndFences(FencedParts, 1)

(***************************************************************************)
(* Properties of _add_table_to_doc                                         *)
(***************************************************************************)
\* The header line: the first line of the block that is not blank.
HeaderLine == TableLines(table_text)[1]

\* The fields of a line: split on the pipe, each field trimmed.
TrimmedFields(line) ==
    LET f == SplitOn(line, "|") IN [n \in 1..Len(f) |-> Trim(f[n])]

\* The cells of a line: its trimmed fields without the empty first field a
\* leading pipe makes and the empty last field a trailing pipe makes.
OuterCells(line) ==
    LET f == TrimmedFields(line)
        first == IF f[1] = <<>> THEN 2 ELSE 1
        last == IF Len(f) >= first /\ f[Len(f)] = <<>> THEN Len(f) - 1 ELSE Len(f)
    IN SubSeq(f, first, last)

\* No write goes to a column at or beyond the width of the table.
WritesInTable == \A n \in 1..Len(cell_writes) : cell_writes[n].col < table_cols

\* C9: the table created has exactly as many columns as the header line has
\* cells after trimming, and no row writes a cell at a column index at or
\* beyond that count.
C9_ColumnsOfHeader ==
    (pc_table = "returned" /\ table_made) =>
        /\ table_cols = Len(OuterCells(HeaderLine))
        /\ \A n \in 1..Len(cell_writes) :
              cell_writes[n].col < Len(OuterCells(HeaderLine))

\* What holds of the code: the width is the number of non-empty header
\* cells, which is the number of header cells when none of them is empty,
\* and every write stays inside that width.
C9_NonEmptyHeaderCells ==
    (pc_table = "returned" /\ table_made) =>
        /\ table_cols = Len(SelectSeq(OuterCells(HeaderLine), LAMBDA c : c # <<>>))
        /\ WritesInTable

\* A data row longer than the header has been cut to the width of the table.
C9_TruncatedRow ==
    /\ pc_table = "returned"
    /\ table_made
    /\ table_cols = 2
    /\ \E r \in 3..Len(TableLines(table_text)) :
          Len(Cells(TableLines(table_text)[r])) = 3

\* The lines of the block that make rows of the table, in row order: the
\* header line, and the lines after the second that have a cell with text.
RowLines ==
    LET lines == TableLines(table_text)
    IN <<lines[1]>>
       \o SelectSeq(SubSeq(lines, 3, Len(lines)),
                    LAMBDA l : \E n \in 1..Len(OuterCells(l)) : OuterCells(l)[n] # <<>>)

\* The text a cell of row r shows for the field t.
CellText(r, t) == IF r = 0 THEN CleanHeaderCell(t) ELSE CleanDataCell(t)

\* The write puts into its cell the field that stands at its column in its
\* line.
FieldAtColumn(w) ==
    LET cells == OuterCells(RowLines[w.row + 1])
    IN /\ w.col + 1 <= Len(cells)
       /\ w.text = CellText(w.row, cells[w.col + 1])

\* C19: every cell written at column j of a row holds the j-th field of the
\* row's line, the fields being those between the pipes without the empty
\* first and last ones: the fields after an empty one are not shifted left.
C19_CellsKeepColumns ==
    (pc_table = "returned" /\ table_made) =>
        \A n \in 1..Len(cell_writes) : FieldAtColumn(cell_writes[n])

\* The same of the tables none of whose row lines has an empty field between
\* its outer pipes.
C19_NoEmptyField ==
    (/\ pc_table = "returned"
     /\ table_made
     /\ \A r \in 1..Len(RowLines) :
           \A n \in 1..Len(OuterCells(RowLines[r])) : OuterCells(RowLines[r])[n] # <<>>)
       => \A n \in 1..Len(cell_writes) : FieldAtColumn(cell_writes[n])

\* The line has a cell with text.
HasCell(line) ==
    \E n \in 1..Len(TrimmedFields(line)) : TrimmedFields(line)[n] # <<>>

\* The lines after the second non-blank line that have a cell with text.
LinesWithCells ==
    {n \in 3..Len(TableLines(table_text)) : HasCell(TableLines(table_text)[n])}

\* The text written comes from a cell of the line that makes the row.
FromRowLine(w) ==
    \E n \in 1..Len(OuterCells(RowLines[w.row + 1])) :
       w.text = CellText(w.row, OuterCells(RowLines[w.row + 1])[n])

\* C20: a block of fewer than 2 non-blank lines makes no table; otherwise the
\* table has 1 + k rows, k the number of lines after the second with a cell
\* that is not empty, and what is written into a row comes from the header
\* line or from one of those lines: the second line, whatever it holds, is
\* no row.
C20_SecondLineDiscarded ==
    pc_table = "returned" =>
        IF Len(TableLines(table_text)) < 2
        THEN ~table_made /\ cell_writes = <<>>
        ELSE /\ table_made
             /\ table_nrows = 1 + Cardinality(LinesWithCells)
             /\ \A n \in 1..Len(cell_writes) :
                   /\ cell_writes[n].row < table_nrows
                   /\ FromRowLine(cell_writes[n])

\* A table of header and one row has been made of three lines, the second
\* of which is no alignment line.
C20_Witness ==
    /\ pc_table = "returned"
    /\ table_made
    /\ Len(TableLines(table_text)) = 3
    /\ TableLines(table_text)[2] = <<"|", "a", "|", "b", "|", "c", "|">>
    /\ table_nrows = 2
    /\ \E n \in 1..Len(cell_writes) : cell_writes[n].row = 1

\* One non-blank line: nothing is made.
C20_TooShort ==
    /\ pc_table = "returned"
    /\ Len(TableLines(table_text)) = 1
    /\ ~table_made

(***************************************************************************)
(* Properties of create_google_doc                                         *)
(***************************************************************************)
IsInsert(req) == req.kind \in {"insertText", "insertInlineImage"}

RECURSIVE UnitsTotal(_, _)
\* The total length of the first n requests of a queue of insert requests:
\* the length of every text plus one per image.
UnitsTotal(reqs, n) ==
    IF n = 0 THEN 0 ELSE UnitsTotal(reqs, n - 1) + Len(UnitsOf(reqs[n]))

\* The body of the document once the first n insert requests have executed.
BodyAfter(n) == ApplyInserts(EmptyBody, SubSeq(insert_requests, 1, n), 1).body

\* The styling requests recorded while the k-th block was processed.
FormatsOfBlock(k) ==
    (IF k = 1 THEN 1 ELSE block_log[k - 1].formats + 1) .. block_log[k].formats

\* The insert batch has executed.
Inserted == pc_doc \in {"batch2", "returned"} \/ doc_exc = "format_batch"

SubmittedInserts == Cardinality({n \in 1..Len(submitted) : IsInsert(submitted[n])})

\* C4: the insertion requests handed to the backend all come before the
\* styling requests, they are the whole insertion queue in its order, which
\* is the order of the document, before any styling request is handed over,
\* and after a failed insertion batch no styling request is handed over.
C4_InsertsBeforeStyling ==
    /\ \A n \in 1..Len(submitted) : IsInsert(submitted[n]) <=> n <= SubmittedInserts
    /\ SubmittedInserts \in {0, Len(insert_requests)}
    /\ SubSeq(submitted, 1, SubmittedInserts)
          = SubSeq(insert_requests, 1, SubmittedInserts)
    /\ \A n, m \in 1..SubmittedInserts :
          n < m => submitted[n].index < submitted[m].index
    /\ Len(submitted) > SubmittedInserts =>
          /\ SubmittedInserts = Len(insert_requests)
          /\ SubSeq(submitted, SubmittedInserts + 1, Len(submitted)) = format_requests
    /\ pc_doc = "blocks" => submitted = <<>>
    /\ doc_exc = "insert_batch" => Len(submitted) = SubmittedInserts

\* Both batches went to the backend.
C4_Witness ==
    /\ pc_doc = "returned"
    /\ SubmittedInserts >= 2
    /\ Len(submitted) > SubmittedInserts

\* The insertion batch failed with styling requests waiting.
C4_FailedBatch ==
    /\ doc_exc = "insert_batch"
    /\ format_requests # <<>>

C5_Inv ==
    /\ current_index = 1 + UnitsTotal(insert_requests, Len(insert_requests))
    /\ \A n \in 1..Len(insert_requests) :
          insert_requests[n].index = 1 + UnitsTotal(insert_requests, n - 1)
    /\ \A k \in 1..Len(block_log) :
          block_log[k].cursor = 1 + UnitsTotal(insert_requests, block_log[k].inserts)

\* C5: current_index starts at 1, never decreases, after every processed
\* block is 1 plus the total length of the text inserted so far plus the
\* number of image placeholders inserted so far, and every insert request
\* carries the value the cursor had right before that insert.
C5_Cursor ==
    /\ current_index = 1
    /\ [](C5_Inv)
    /\ [][current_index' >= current_index]_vars

\* An image and text are in the queue.
C5_Witness ==
    /\ pc_doc = "returned"
    /\ Len(insert_requests) >= 3
    /\ \E n \in 1..Len(insert_requests) : insert_requests[n].kind = "insertInlineImage"
    /\ current_index > 4

\* The block under the cursor is a DiagramRef and the step processes it.
MermaidStep ==
    /\ pc_doc = "blocks"
    /\ block_i <= Len(blocks)
    /\ blocks[block_i].type = "mermaid"
    /\ block_i' = block_i + 1

\* C16: processing a DiagramRef whose image is present appends exactly an
\* image insert at the cursor and the two-line-break text insert one past it,
\* and moves the cursor by 1 and then by 2; with the image absent the two
\* queues and the cursor stay as they are and the next block is processed,
\* no error raised.
C16_DiagramRef ==
    [][MermaidStep =>
         IF mermaid_images[blocks[block_i].index + 1] # <<>>
         THEN /\ insert_requests' = insert_requests \o
                    << [kind |-> "insertInlineImage", index |-> current_index],
                       [kind |-> "insertText", index |-> current_index + 1,
                        text |-> <<NL, NL>>] >>
              /\ current_index' = current_index + 1 + 2
              /\ format_requests' = format_requests
         ELSE /\ insert_requests' = insert_requests
              /\ format_requests' = format_requests
              /\ current_index' = current_index
              /\ pc_doc' = "blocks"
              /\ doc_exc' = "none"]_vars

\* A document with a DiagramRef whose image is there and one whose image is
\* not has been built: the first added two inserts, the second none.
C16_Witness ==
    /\ pc_doc = "returned"
    /\ \E k \in 1..Len(block_log) :
          /\ blocks[k].type = "mermaid"
          /\ mermaid_images[blocks[k].index + 1] # <<>>
          /\ block_log[k].inserts = (IF k = 1 THEN 0 ELSE block_log[k - 1].inserts) + 2
    /\ \E k \in 2..Len(block_log) :
          /\ blocks[k].type = "mermaid"
          /\ mermaid_images[blocks[k].index + 1] = <<>>
          /\ block_log[k] = block_log[k - 1]

\* The block under the cursor is a Code block and the step processes it.
CodeStep ==
    /\ pc_doc = "blocks"
    /\ block_i <= Len(blocks)
    /\ blocks[block_i].type = "code"
    /\ block_i' = block_i + 1

\* The styling requests a step adds to the queue.
NewFormats == (Len(format_requests) + 1)..Len(format_requests')

\* C17: processing a Code block of content c with the cursor at x appends
\* the insert of line break, c, line break at x, records styling requests
\* that all span [x, x + Len(c) + 2), one of them the paragraph-level one,
\* and leaves the cursor at x + Len(c) + 2.
C17_CodeBlock ==
    [][CodeStep =>
         LET c == blocks[block_i].content
             x == current_index
         IN /\ insert_requests' = Append(insert_requests,
                   [kind |-> "insertText", index |-> x,
                    text |-> <<NL>> \o c \o <<NL>>])
            /\ SubSeq(format_requests', 1, Len(format_requests)) = format_requests
            /\ Cardinality({n \in NewFormats :
                               format_requests'[n].kind = "codeParagraph"}) = 1
            /\ \A n \in NewFormats :
                  /\ format_requests'[n].startIndex = x
                  /\ format_requests'[n].endIndex = x + Len(c) + 2
            /\ current_index' = x + Len(c) + 2]_vars

\* A Code block with content has been processed after another block.
C17_Witness ==
    /\ pc_doc = "returned"
    /\ \E k \in 2..Len(block_log) :
          /\ blocks[k].type = "code"
          /\ blocks[k].content # <<>>
          /\ block_log[k - 1].cursor > 1
          /\ block_log[k].cursor = block_log[k - 1].cursor + Len(blocks[k].content) + 2
          /\ block_log[k].formats = block_log[k - 1].formats + 2

RECURSIVE Copies(_, _)
Copies(n, x) == IF n = 0 THEN <<>> ELSE <<x>> \o Copies(n - 1, x)

RECURSIVE LineSpans(_, _, _)
\* For each styling request of the lines from the n-th on, in order, the
\* span of the line it was computed for: where the text of the line begins
\* in the document and where it ends, the line break not counted.
LineSpans(lines, n, pos) ==
    IF n > Len(lines) THEN <<>>
    ELSE Copies(Len(FormatLine(lines[n], pos).requests),
                [from |-> pos, to |-> pos + Len(FormatLine(lines[n], pos).text) - 1])
         \o LineSpans(lines, n + 1, pos + Len(FormatLine(lines[n], pos).text))

\* The cursor before the k-th block.
CursorBefore(k) == IF k = 1 THEN 1 ELSE block_log[k - 1].cursor

\* The styling requests of the k-th block, a markdown block, lie inside the
\* lines they were computed for.
InsideLines(k) ==
    LET spans == LineSpans(SplitLines(blocks[k].content), 1, CursorBefore(k))
        first == IF k = 1 THEN 0 ELSE block_log[k - 1].formats
    IN \A j \in 1..Len(spans) :
          /\ spans[j].from <= format_requests[first + j].startIndex
          /\ format_requests[first + j].endIndex <= spans[j].to

\* All blocks have been processed: the cursor has its final value.
AllProcessed == pc_doc # "idle" /\ block_i > Len(blocks)

\* C23: every styling request recorded has 1 <= startIndex <= endIndex <=
\* the final value of the cursor, and the requests of a markdown block lie
\* inside the text of the line they were computed for.
C23_RangesInText ==
    AllProcessed =>
        /\ \A n \in 1..Len(format_requests) :
              /\ 1 <= format_requests[n].startIndex
              /\ format_requests[n].startIndex <= format_requests[n].endIndex
              /\ format_requests[n].endIndex <= current_index
        /\ \A k \in 1..Len(block_log) :
              blocks[k].type = "markdown" => InsideLines(k)

\* What holds of every request: it begins at or after 1, does not end
\* before it begins, and begins before the final value of the cursor.
C23_Ordered ==
    AllProcessed =>
        \A n \in 1..Len(format_requests) :
           /\ 1 <= format_requests[n].startIndex
           /\ format_requests[n].startIndex <= format_requests[n].endIndex
           /\ format_requests[n].startIndex < current_index

(***************************************************************************)
(* Properties of convert                                                   *)
(***************************************************************************)
\* The n-th render failed.
RenderFailed(n) == render_outcomes[n] # "ok"

RECURSIVE ExpectedBuilt(_)
\* The positions of the first n blocks without the mermaid blocks whose
\* render failed, in order.
ExpectedBuilt(n) ==
    IF n = 0 THEN <<>>
    ELSE IF conv_blocks[n] = "mermaid" /\ RenderFailed(DiagramOf(conv_blocks, n))
    THEN ExpectedBuilt(n - 1)
    ELSE Append(ExpectedBuilt(n - 1), n)

\* C10: whichever renders fail, on the remote path or on the local-tool
\* path, render_to_image returns instead of raising, convert records an
\* absent image for exactly the failed diagrams, and the builder emits every
\* other block in order: nothing that raises in convert is a render.
C10_RenderFailureNonFatal ==
    /\ conv_exc # "render"
    /\ \A n \in 1..Len(conv_images) : (conv_images[n] = <<>>) <=> RenderFailed(n)
    /\ pc_conv \in {"build", "done"} => Len(conv_images) = NumDiagrams(conv_blocks)
    /\ pc_conv \in {"build", "done"} => built = ExpectedBuilt(conv_block_i - 1)
    /\ pc_conv = "done" => built = ExpectedBuilt(Len(conv_blocks))

\* The same of md2docx alone, and of the remote path alone.
C10_Docx == backend = "docx" => C10_RenderFailureNonFatal

C10_RemotePath == use_api => C10_RenderFailureNonFatal

\* A document is finished although a render failed, with blocks around the
\* failed diagram.
C10_FinishedAfterFailure ==
    /\ pc_conv = "done"
    /\ \E n \in 1..Len(render_outcomes) : RenderFailed(n)
    /\ Len(built) >= 2

\* C21: the temporary directory is there from before the first render until
\* convert ends: no render happens without it, every image path in the
\* list handed to the builder names a file that exists while the document is
\* built and finished, and once convert has returned or raised the directory
\* and its files are gone.
C21_TempDirScope ==
    /\ rendered # <<>> => temp_dir # "none"
    /\ pc_conv \in {"render", "build"} =>
          /\ temp_dir = "exists"
          /\ \A n \in 1..Len(conv_images) :
                conv_images[n] # <<>> => conv_images[n] \in temp_files
    /\ pc_conv \in {"done", "raised"} =>
          /\ temp_dir # "exists"
          /\ temp_files = {}
          /\ temp_dir = "none" => conv_exc \in {"parse", "tempdir"}

\* A document with a rendered image has been finished and the directory is
\* gone.
C21_Witness ==
    /\ pc_conv = "done"
    /\ temp_dir = "deleted"
    /\ \E n \in 1..Len(conv_images) : conv_images[n] # <<>>
    /\ picked # <<>>

\* convert has raised in the builder, after a render, and the directory is
\* gone.
C21_RaisedInBuild ==
    /\ pc_conv = "raised"
    /\ conv_exc = "build"
    /\ temp_dir = "deleted"
    /\ rendered # <<>>

\* The renderer has been constructed.
Constructed == pc_conv \notin {"idle", "new"}

C22_Inv ==
    /\ Constructed => (use_api <=> (requested \/ ~tool_available))
    /\ \A n \in 1..Len(paths_taken) : (paths_taken[n] = "cli") <=> ~use_api
    /\ \A n \in 1..Len(render_outcomes) :
          render_outcomes[n] \in {"tool_failed", "write_failed"} => ~use_api

\* C22: once MermaidRenderer(use_api) has returned the flag is true exactly
\* when true was requested or the check of the local tool failed, no step
\* after the construction changes it, and each render_to_image call takes
\* the local-tool path exactly when the flag is false.
C22_FlagReadOnly ==
    /\ [](C22_Inv)
    /\ [][Constructed => use_api' = use_api]_vars

\* The local tool was requested and is missing: the renders went to the
\* remote service.
C22_Witness ==
    /\ pc_conv = "done"
    /\ ~requested
    /\ ~tool_available
    /\ use_api
    /\ Len(paths_taken) >= 2

\* The local tool was requested and is there: the renders went to it.
C22_LocalTool ==
    /\ pc_conv = "done"
    /\ ~requested
    /\ ~use_api
    /\ Len(paths_taken) >= 2

\* parse_markdown has returned in convert.
Parsed == pc_conv \in {"tempdir", "render", "build", "done"} \/ rendered # <<>>
          \/ conv_exc \in {"tempdir", "lookup", "build"}

\* The file of the k-th diagram, or the empty marker.
ImageOrMarker(k) == {<<>>, Mermaid \o <<"_">> \o IntToText(k - 1) \o <<".", "p", "n", "g">>}

\* C25: the k-th mermaid block carries index k - 1 and there are as many
\* diagrams as mermaid blocks; the diagrams are rendered in the order of the
\* list, the k-th image entry being the file of the k-th diagram or the
\* empty marker; the list the builder gets has one entry per diagram; and
\* the lookup of the k-th mermaid block is in range and yields the k-th
\* entry.
C25_IndicesResolve ==
    Parsed =>
        /\ NumDiagrams(conv_blocks) = Len(conv_codes)
        /\ \A n \in MermaidPositions(conv_blocks) :
              conv_index[n] = DiagramOf(conv_blocks, n) - 1
        /\ Len(rendered) <= Len(conv_codes)
        /\ \A k \in 1..Len(rendered) : rendered[k] = conv_codes[k]
        /\ Len(conv_images) <= Len(rendered)
        /\ \A k \in 1..Len(conv_images) : conv_images[k] \in ImageOrMarker(k)
        /\ (pc_conv \in {"build", "done"} \/ conv_exc \in {"lookup", "build"})
              => Len(conv_images) = Len(conv_codes)
        /\ conv_exc # "lookup"
        /\ Len(picked) <= Len(conv_images)
        /\ \A k \in 1..Len(picked) : picked[k] = conv_images[k]

\* A document of two diagrams has been built: the first render failed, and
\* the second mermaid block got the second diagram's image.
C25_Witness ==
    /\ pc_conv = "done"
    /\ Len(conv_codes) = 2
    /\ conv_codes[1] # conv_codes[2]
    /\ conv_images[1] = <<>>
    /\ picked = <<<<>>, Mermaid \o <<"_", "1", ".", "p", "n", "g">>>>

(***************************************************************************)
(* Properties of main and convert_directory                                *)
(***************************************************************************)
\* The number of calls of convert that raised.
Failures == Cardinality({n \in 1..Len(file_outcomes) : file_outcomes[n] # "ok"})

C12_AuthAborts ==
    (dir_backend = "gdocs" /\ auth_failed_at # -1) =>
        /\ Len(attempts) = auth_failed_at
        /\ pc_dir = "exited" => exit_status = 1

\* The same without the case inside a file of a directory.
C12_SingleOrStart ==
    (dir_backend = "gdocs" /\ auth_failed_at # -1
       /\ (dir_mode = "single" \/ auth_failed_at = 0)) =>
        /\ Len(attempts) = auth_failed_at
        /\ pc_dir = "exited" => exit_status = 1

(***************************************************************************)
(* Properties of _render_with_cli                                          *)
(***************************************************************************)
\* C13: when a call of _render_with_cli has ended, the temporary file it
\* created is gone, whichever step failed, and no earlier call of the
\* document has left its file behind.
C13_TempFileDeleted ==
    pc_cli = "ended" => (~temp_exists /\ leaked = {})

\* The same for the calls in which f.write did not raise.
C13_UnlessWriteFails ==
    (pc_cli = "ended" /\ cli_failure # "write") => ~temp_exists

\* The tool failed and the file was removed.
C13_ToolFailure ==
    /\ pc_cli = "ended"
    /\ cli_failure \in {"nonzero_exit", "tool_missing"}
    /\ ~temp_exists

====
